---- MODULE Spec2Model ----
(***************************************************************************)
(* Ingestion and diff engine of lra-alerts (functions/src/debug.routes.ts) *)
(* over a Firestore-like document store: runIngest fetches the normalized  *)
(* rows of the source layer, upsertToFirestore diffs them against the      *)
(* stored listings and applies the delta in bounded atomic write batches.  *)
(***************************************************************************)
EXTENDS Integers, Sequences, FiniteSets, TLC

(***************************************************************************)
(* Bounds of the model and constants of the program                        *)
(***************************************************************************)
MaxRuns == 3          \* ingest runs against a small source layer
BulkRuns == 2         \* ingest runs against the bulk source layer
ServiceRuns == 2      \* ingest runs started through POST /ingest
NumIds == 2           \* distinct parcel ids of the small source layer
MaxRows == 2          \* rows of one fetch of the small source layer
BulkSizes == {450, 1000}   \* record counts of the bulk source layer

MAX_BATCH_OPERATIONS == 450
\* variant of MERGE_WRITES: set() keeps the fields the new document lacks
MERGE_WRITES_On == TRUE
MERGE_WRITES == FALSE

\* a nullable value is the empty tuple (null) or a one-element tuple
NULL == <<>>
Some(v) == <<v>>
\* FieldValue.serverTimestamp(): a sentinel the server replaces at commit time
ServerTimestamp == -1
TimestampFields == {"updatedAt", "removedAt"}

(***************************************************************************)
(* Canonical rows (LraRow, normalized core) as the normalizer emits them   *)
(***************************************************************************)
RowKeys == <<"Status", "PropertyType", "id", "parcelId", "address", "neighborhood", "ward", "zip", "sqft", "usage", "status">>

LraRow(id, address, ward, zip, sqft) ==
    [Status |-> Some("Available"), PropertyType |-> NULL,
     id |-> id, parcelId |-> Some(id), address |-> address, neighborhood |-> NULL,
     ward |-> ward, zip |-> zip, sqft |-> sqft, usage |-> NULL, status |-> Some("Available")]

\* addresses are sequences of characters
AddrOf(id) == IF id % 2 = 1 THEN <<"9", " ", " ", "M", "a", "i", "n">> ELSE <<" ", "E", "l", "m", " ">>

\* only parcel 1 comes in two variants; they differ in sqft; the parcels with
\* an even id are in ward 0
SampleRow(id, v) ==
    LraRow(id, Some(AddrOf(id)), Some(IF id % 2 = 0 THEN 0 ELSE id), Some("63104"),
           IF v = 1 THEN Some(100) ELSE Some(200))

\* the sample records of the small layer in the order the source returns them
SampleRows == <<SampleRow(1, 1), SampleRow(1, 2)>> \o [k \in 1..(NumIds - 1) |-> SampleRow(k + 1, 1)]

\* a fetch of the small layer returns any MaxRows or fewer of its records
SmallFeeds ==
    { SelectSeq(SampleRows, LAMBDA r : r \in S) :
        S \in { T \in SUBSET { SampleRows[k] : k \in DOMAIN SampleRows } : Cardinality(T) <= MaxRows } }

BulkRow(id) == LraRow(id, NULL, NULL, NULL, NULL)
BulkFeed(n) == [k \in 1..n |-> BulkRow(k)]

(***************************************************************************)
(* Pure functions of debug.routes.ts                                       *)
(***************************************************************************)
\* sha1 over JSON.stringify(row): the serialization lists the values in key
\* order; sha1 is taken as collision-free
contentFingerprint(row) == [k \in 1..Len(RowKeys) |-> row[RowKeys[k]]]

toLowerCase(ch) ==
    CASE ch = "M" -> "m"
      [] ch = "E" -> "e"
      [] OTHER -> ch

\* address.split(/\s+/).filter(Boolean)
RECURSIVE SplitWs(_, _, _)
SplitWs(s, k, word) ==
    IF k > Len(s) THEN (IF word = <<>> THEN <<>> ELSE <<word>>)
    ELSE IF s[k] = " "
         THEN (IF word = <<>> THEN <<>> ELSE <<word>>) \o SplitWs(s, k + 1, <<>>)
         ELSE SplitWs(s, k + 1, Append(word, s[k]))

buildListingDoc(row, hash) ==
    LET addr == IF row.address = NULL THEN <<>> ELSE row.address[1]
        address == [k \in 1..Len(addr) |-> toLowerCase(addr[k])]
    IN  [id |-> row.id,
         addressLower |-> address,
         addressKeywords |-> SplitWs(address, 1, <<>>),
         removed |-> FALSE,
         contentHash |-> hash,
         updatedAt |-> ServerTimestamp] @@ row

(***************************************************************************)
(* The document store: a write batch is a sequence of operations, applied  *)
(* atomically and in order by commit                                       *)
(***************************************************************************)
SetOp(id, doc, merge) == [kind |-> "set", id |-> id, data |-> doc, merge |-> merge]
UpdateOp(id, fields) == [kind |-> "update", id |-> id, data |-> fields, merge |-> TRUE]

\* the server resolves FieldValue.serverTimestamp() at commit time
Resolve(data, t) ==
    [f \in DOMAIN data |-> IF f \in TimestampFields /\ data[f] = ServerTimestamp THEN t ELSE data[f]]

\* one operation on the stored version of its document (NoDoc: no document):
\* set with merge:false replaces the document, set with merge:true and update
\* overwrite the given fields and keep the others
NoDoc == [exists |-> FALSE]
ApplyOp(cur, op, t) ==
    LET data == Resolve(op.data, t)
    IN  IF op.kind = "delete" THEN NoDoc
        ELSE IF op.merge /\ cur # NoDoc THEN [exists |-> TRUE, data |-> data @@ cur.data]
        ELSE [exists |-> TRUE, data |-> data]

RECURSIVE Fold(_, _, _, _)
Fold(cur, mine, k, t) ==
    IF k > Len(mine) THEN cur ELSE Fold(ApplyOp(cur, mine[k], t), mine, k + 1, t)

\* the stored version of document id after the operations of ops on it, in order
DocAfter(store, id, ops, t) ==
    LET Mine(op) == op.id = id
    IN  Fold(IF id \in DOMAIN store THEN [exists |-> TRUE, data |-> store[id]] ELSE NoDoc,
             SelectSeq(ops, Mine), 1, t)

\* the store after batch.commit() succeeded at server time t
ApplyBatch(store, ops, t) ==
    LET touched == { ops[k].id : k \in DOMAIN ops }
        kept == { id \in DOMAIN store \cup touched :
                    id \notin touched \/ DocAfter(store, id, ops, t).exists }
    IN  [id \in kept |-> IF id \in touched THEN DocAfter(store, id, ops, t).data ELSE store[id]]

\* the server rejects a batch holding an update of a document that does not exist
Committable(store, ops) ==
    \A k \in DOMAIN ops :
        ops[k].kind = "update" =>
            LET Mine(op) == op.id = ops[k].id
            IN  Fold(IF ops[k].id \in DOMAIN store THEN [exists |-> TRUE, data |-> store[ops[k].id]]
                     ELSE NoDoc,
                     SelectSeq(SubSeq(ops, 1, k - 1), Mine), 1, 0).exists

\* coll.select("contentHash", "removed").get()
Projection(store) ==
    [id \in DOMAIN store |-> [contentHash |-> store[id].contentHash, removed |-> store[id].removed]]

\* snap.docs is ordered by document id
MaxId == CHOOSE m \in BulkSizes \cup {NumIds} : \A n \in BulkSizes \cup {NumIds} : n <= m
IdOrder == [k \in 1..MaxId |-> k]
SortedIds(S) == LET In(x) == x \in S IN SelectSeq(IdOrder, In)

Range(f) == { f[x] : x \in DOMAIN f }

EmptyDiff == [added |-> <<>>, changed |-> <<>>, removed |-> <<>>, unchangedCount |-> 0]

\* a bulk fetch of one record more than a batch holds, with parcel 1 listed
\* twice (rows 1 and 2, differing in sqft)
BulkDupFeed ==
    [k \in 1..(MAX_BATCH_OPERATIONS + 1) |->
        IF k = 2 THEN LraRow(1, NULL, NULL, NULL, Some(200)) ELSE BulkRow(k)]

\* a JavaScript value: null, a number, a non-finite number or a string of
\* characters
JsNull == [type |-> "null", n |-> 0, s |-> <<>>]
JsNumber(n) == [type |-> "number", n |-> n, s |-> <<>>]
JsInfinity == [type |-> "infinity", n |-> 0, s |-> <<>>]
JsString(s) == [type |-> "string", n |-> 0, s |-> s]
JsNaN == [type |-> "NaN", n |-> 0, s |-> <<>>]

\* an object: its members in insertion order, each the text "key":value
JsObject(members) == [type |-> "object", n |-> 0, s |-> members]

Digits == <<"0", "1", "2", "3", "4", "5", "6", "7", "8", "9">>


\* String(n) for a non-negative integer
RECURSIVE DecimalString(_)
DecimalString(n) ==
    IF n < 10 THEN <<Digits[n + 1]>>
    ELSE Append(DecimalString(n \div 10), Digits[(n % 10) + 1])

\* String(value) for a value that is not null
String(v) ==
    IF v.type = "string" THEN v.s
    ELSE IF v.type = "number" THEN DecimalString(v.n)
    ELSE IF v.type = "NaN" THEN <<"N", "a", "N">>
    ELSE IF v.type = "object"
        THEN <<"[", "o", "b", "j", "e", "c", "t", " ", "O", "b", "j", "e", "c", "t", "]">>
    ELSE <<"I", "n", "f", "i", "n", "i", "t", "y">>

\* the characters of the strings of the model
Chars(str) ==
    CASE str = "" -> <<>>
      [] str = "u1" -> <<"u", "1">>
      [] str = "u2" -> <<"u", "2">>
      [] str = "u1_zip" -> <<"u", "1", "_", "z", "i", "p">>
      [] str = "zip" -> <<"z", "i", "p">>
      [] str = "parcel" -> <<"p", "a", "r", "c", "e", "l">>
      [] str = "ward" -> <<"w", "a", "r", "d">>
      [] str = "neighborhood" -> <<"n", "e", "i", "g", "h", "b", "o", "r", "h", "o", "o", "d">>
      [] str = "city" -> <<"c", "i", "t", "y">>
      [] str = "63104" -> <<"6", "3", "1", "0", "4">>

(***************************************************************************)
(* Subscriptions and the alert engine (functions/src/alertEngine.ts)       *)
(***************************************************************************)
\* createAlert: docId = `${userId}_${type}_${value}`, the three parts as the
\* template literal converts them to text
subscriptionId(userId, type, value) ==
    Chars(userId) \o <<"_">> \o Chars(type) \o <<"_">> \o String(value)

\* variant of createAlert that adds a document under an id of its own
createAlert_Add(store, userId, type, value, now) ==
    LET docId == subscriptionId(userId, type, value) \o <<"_">> \o DecimalString(now)
    IN  [d \in DOMAIN store \cup {docId} |->
            IF d = docId
                THEN [userId |-> userId, type |-> type, value |-> value, createdAt |-> now]
                ELSE store[d]]

\* createAlert: set({userId, type, value, createdAt}) on the document of that
\* id replaces the document if there is one
createAlert(store, userId, type, value, now) ==
    LET docId == subscriptionId(userId, type, value)
    IN  [d \in DOMAIN store \cup {docId} |->
            IF d = docId
                THEN [userId |-> userId, type |-> type, value |-> value, createdAt |-> now]
                ELSE store[d]]

\* removeAlert: delete() of the document of that id, a no-op when there is none
removeAlert(store, userId, type, value) ==
    [d \in DOMAIN store \ {subscriptionId(userId, type, value)} |-> store[d]]

\* the characters of document ids in code order
CodeOrder ==
    Digits \o <<"_">> \o
    <<"a", "b", "c", "d", "e", "f", "g", "h", "i", "j", "k", "l", "m",
      "n", "o", "p", "q", "r", "s", "t", "u", "v", "w", "x", "y", "z">>
CodeOf(c) == CHOOSE k \in DOMAIN CodeOrder : CodeOrder[k] = c

RECURSIVE Precedes(_, _)
Precedes(a, b) ==
    IF a = <<>> THEN b # <<>>
    ELSE IF b = <<>> THEN FALSE
    ELSE IF Head(a) = Head(b) THEN Precedes(Tail(a), Tail(b))
    ELSE CodeOf(Head(a)) < CodeOf(Head(b))

\* the documents of a query result in document id order, the order a query
\* returns them in
ByDocId(S) ==
    [k \in 1..Cardinality(S) |->
        CHOOSE d \in S : Cardinality({ e \in S : Precedes(e, d) }) = k - 1]

\* getAlerts: the values of the user's subscriptions grouped by type; a
\* document of another type is left out
getAlerts(store, userId) ==
    LET docs == ByDocId({ d \in DOMAIN store : store[d].userId = userId })
        Of(type) == LET Is(d) == store[d].type = type
                        sel == SelectSeq(docs, Is)
                    IN  [n \in 1..Len(sel) |-> store[sel[n]].value]
    IN  [zip |-> Of("zip"), parcel |-> Of("parcel"), ward |-> Of("ward"),
         neighborhood |-> Of("neighborhood")]

\* the subscriptions of the model: user, type and value
SampleSubs ==
    << <<"u1", "ward", JsNumber(1)>>, <<"u1", "zip", JsString(Chars("63104"))>>,
       <<"u2", "parcel", JsString(<<"1">>)>>, <<"u2", "ward", JsNumber(2)>>,
       <<"u2", "zip", JsString(Chars("63104"))>> >>

\* the store after createAlert of each, created before the model starts
RECURSIVE StoreOf(_, _)
StoreOf(subs, k) ==
    IF k > Len(subs) THEN <<>>
    ELSE createAlert(StoreOf(subs, k + 1), subs[k][1], subs[k][2], subs[k][3], 0)

AllSubs == StoreOf(SampleSubs, 1)
ZipSubs == StoreOf(<<SampleSubs[2], SampleSubs[5]>>, 1)
SubStores == {AllSubs, ZipSubs, <<>>}

\* the subscription types each alert function consults
addedAlert == [event |-> "added", types |-> <<"zip", "parcel", "ward", "neighborhood">>]
\* variant of changedAlert that consults the zip subscriptions as well
changedAlert_WithZip ==
    [event |-> "changed", types |-> <<"zip", "parcel", "ward", "neighborhood">>]
changedAlert == [event |-> "changed", types |-> <<"parcel", "ward", "neighborhood">>]
removedAlert == [event |-> "removed", types |-> <<"zip", "parcel", "ward", "neighborhood">>]

\* the fields of a record as JavaScript values: zip, parcelId and
\* neighborhood are strings, ward is a number
StringField(f) == IF f = NULL THEN NULL ELSE Some(JsString(Chars(f[1])))
NumberField(f) == IF f = NULL THEN NULL ELSE Some(JsNumber(f[1]))

valueMap(property) ==
    [zip |-> StringField(property.zip),
     parcel |-> IF property.parcelId = NULL THEN NULL
                ELSE Some(JsString(DecimalString(property.parcelId[1]))),
     ward |-> NumberField(property.ward),
     neighborhood |-> StringField(property.neighborhood)]

\* variant of notifySubscribers whose query filters on the type only
notifySubscribers_TypeOnly(store, type, value) ==
    LET Match(d) == store[d].type = type
        docs == ByDocId({ d \in DOMAIN store : Match(d) })
    IN  [n \in 1..Len(docs) |-> [userId |-> store[docs[n]].userId, subscription |-> docs[n]]]

\* notifySubscribers: where type == type and value == value; one notification
\* task per document of the query result
notifySubscribers(store, type, value) ==
    LET Match(d) == store[d].type = type /\ store[d].value = value
        docs == ByDocId({ d \in DOMAIN store : Match(d) })
    IN  [n \in 1..Len(docs) |-> [userId |-> store[docs[n]].userId, subscription |-> docs[n]]]

\* variant of sendAlertsForProperty that awaits the subscriber queries one
\* after the other: a rejected query ends the function, the later types are
\* never queried and the alert promise rejects
sendAlertsForProperty_AwaitEach(store, slack, property, alertTypes, failed) ==
    LET Broke(t) == \E u \in 1..(t - 1) :
                        alertTypes[u] \in failed /\ valueMap(property)[alertTypes[u]] # NULL
    IN  [tasks |->
            [t \in 1..Len(alertTypes) |->
                LET type == alertTypes[t]
                    value == valueMap(property)[type]
                IN  IF value = NULL \/ Broke(t) THEN [type |-> type, status |-> "none", sent |-> <<>>]
                    ELSE IF type \in failed
                         THEN [type |-> type, status |-> "rejected", sent |-> <<>>]
                         ELSE [type |-> type, status |-> "fulfilled",
                               sent |-> notifySubscribers(store, type, value[1])]],
         slack |-> slack,
         status |-> IF Broke(Len(alertTypes) + 1) THEN "rejected" ELSE "fulfilled"]

\* sendAlertsForProperty: one notifySubscribers promise per type whose value is
\* not null, the Slack message if the webhook is configured, then
\* Promise.allSettled; failed: the types whose subscriber query rejects
sendAlertsForProperty(store, slack, property, alertTypes, failed) ==
    [tasks |->
        [t \in 1..Len(alertTypes) |->
            LET type == alertTypes[t]
                value == valueMap(property)[type]
            IN  IF value = NULL THEN [type |-> type, status |-> "none", sent |-> <<>>]
                ELSE IF type \in failed
                     THEN [type |-> type, status |-> "rejected", sent |-> <<>>]
                     ELSE [type |-> type, status |-> "fulfilled",
                           sent |-> notifySubscribers(store, type, value[1])]],
     slack |-> slack,
     status |-> "fulfilled"]

\* [...diff.added.map(addedAlert), ...diff.changed.map(changedAlert),
\*  ...diff.removed.map(removedAlert)]
alertPromises(d) ==
    LET na == Len(d.added)
        nc == Len(d.changed)
    IN  [k \in 1..(na + nc + Len(d.removed)) |->
            IF k <= na THEN [alert |-> addedAlert, property |-> d.added[k]]
            ELSE IF k <= na + nc THEN [alert |-> changedAlert, property |-> d.changed[k - na]]
            ELSE [alert |-> removedAlert, property |-> d.removed[k - na - nc]]]

\* the subscriber queries of the run that can reject: none or any single one
LookupFailures(promises) ==
    {{}} \cup UNION { { {<<k, promises[k].alert.types[t]>>} :
                          t \in { u \in DOMAIN promises[k].alert.types :
                                    valueMap(promises[k].property)[promises[k].alert.types[u]] # NULL } } :
                      k \in DOMAIN promises }

(***************************************************************************)
(* Selections aggregation and the export of runIngest                      *)
(***************************************************************************)
SelectionFields == <<"zip", "neighborhood", "ward", "usage", "Status", "PropertyType">>
NumericFields == {"ward", "sqft"}

\* aggregateSelections(field): the distinct String(value) of the truthy values
\* of the field over the documents with removed == false; the sorted array of
\* distinct strings is kept as their set
aggregateSelections(store, field) ==
    { IF field \in NumericFields THEN ToString(store[id][field][1]) ELSE store[id][field][1] :
        id \in { d \in DOMAIN store :
                    /\ store[d].removed = FALSE
                    /\ field \in DOMAIN store[d]
                    /\ store[d][field] # NULL
                    /\ IF field \in NumericFields THEN store[d][field][1] # 0
                       ELSE store[d][field][1] # "" } }

\* writeCsvToStorage: the file of the day; csvFormat writes one line per row
CsvPath == "exports/lra_available_<stamp>.csv"
rowsToCsv(list) == [lines |-> Len(list)]

NoResponse == [status |-> 0]

(***************************************************************************)
(* State                                                                   *)
(***************************************************************************)
VARIABLES
    listings,        \* collection "listings": document id -> document data
    clock,           \* server time
    layer,           \* which source layer the deployment reads ("small", "pair" or "bulk")
    runs,            \* ingest runs started so far
    pc,              \* position of the ingest run
    rows,            \* runIngest: the rows fetched by this run
    existing,        \* upsertToFirestore: snapshot id -> {contentHash, removed}
    incomingIds,
    added, changed, removed, unchangedCount,
    batch, ops,      \* the open write batch and its operation counter
    i,               \* index of the next row of the for loop
    idsToRemove,
    removedDocsSnap, \* result of db.getAll for idsToRemove
    j,               \* index of the next document of removedDocsSnap
    diff,            \* value returned by upsertToFirestore
    threw,           \* the run went through the catch block of upsertToFirestore
    pre,             \* history: listings when the run started
    commits,         \* history: the batches committed by this run
    prevRows,        \* history: rows of the previous run
    prevClean,       \* history: the previous run returned without an error
    prev2Ids,        \* history: incoming ids of the run before the previous run
    prev2Clean,      \* history: that run returned without an error
    unreliable,      \* which service of the deployment can fail ("none", "store", ...)
    subscriptions,   \* collection "subscriptions": document id -> document data
    SLACK_WEBHOOK_URL, \* whether process.env.SLACK_WEBHOOK_URL is set
    alerts,          \* runIngest: per alert promise of the run, what it did
    csvResult,       \* runIngest: value returned by writeCsvToStorage
    known,           \* runIngest: the six aggregated selection lists
    storage,         \* the storage bucket: path -> file
    exportsCurrent,  \* document exports/current
    response,        \* answer of POST /ingest to the last request
    effects,         \* history: the steps of runIngest taken after the writer returned
    fault,           \* history: the failure this run met ("none" if none)
    preExports,      \* history: exports/current when the run started
    prevPre,         \* history: listings projection when the previous run started
    pending,         \* history: ids altered by a committed batch and in no dispatched diff
    objectIds,       \* source server: the matching object ids in OBJECTID order
    maxRecordCount,  \* source server: most ids it returns for one request
    pageSize,        \* fetchObjectIds: config.pageSize
    offset,          \* fetchObjectIds: resultOffset of the next request
    ids,             \* fetchObjectIds: the ids collected so far
    fpc,             \* fetchObjectIds: "off", "request", "returned" or "threw"
    retries,         \* withRetry: the retries argument
    attempt,         \* withRetry: the failed invocations counted so far
    delay,           \* withRetry: the base delay of the next wait, in ms
    waits,           \* withRetry: the waits made, each [delay, jitter]
    error,           \* withRetry: the message of the last error caught, or NULL
    wpc,             \* withRetry: "off", "call", "sleep", "returned" or "threw"
    initialToken,    \* arcgisPost: the token of the calls made through withRetry
    preferParam,     \* arcgisPost: tokenAsParam()
    requests,        \* source server: the requests received, in order
    lastResponse,    \* source server: its last response, or NULL
    mode,            \* getAuthMode(): "none", "static" or "oauth"
    oauthEnv,        \* the three OAuth environment variables are set
    cachedToken,     \* the module's cachedToken, or NULL
    now,             \* Date.now(), in ms
    issued,          \* token server: the token requests received
    calls,           \* getArcgisToken: per caller, the call in progress
    last,            \* getArcgisToken: the last step taken by a call, or NULL
    token,           \* arcgisPost: the caller's token argument, or NULL
    refreshed,       \* arcgisPost: the token of the forced refresh, or NULL
    forced,          \* arcgisPost: the getArcgisToken(true) calls made
    thrown,          \* arcgisPost: the message of the error it rejected with, or NULL
    apc,             \* arcgisPost: "off", "withRetry", "retry", "fallback", "returned", "threw"
    raw,             \* normZip: its argument
    attrs,           \* toRow: its argument, the attributes of one feature
    ret,             \* the value returned by normZip or toRow, or NULL before the call
    npc,             \* "off", "input", "normZip" or "toRow"
    generated,       \* genUuid: the tokens generated so far
    features,        \* source server: the attributes of the features it returns, in order
    fetched,         \* fetchAllArcgisRows: per fetch made, the rows it returned
    hashes,          \* upsertToFirestore: per fetch, the contentFingerprint of each row
    INGEST_SECRET,   \* process.env.INGEST_SECRET: NULL when not set
    log,             \* the requests the HTTP routes received, with their answers
    wipe,            \* POST /wipe: the documents coll.get() returned, or NULL
    clients          \* the /alerts requests the clients of the deployment send

vars == <<listings, clock, layer, runs, pc, rows, existing, incomingIds, added, changed, removed,
          unchangedCount, batch, ops, i, idsToRemove, removedDocsSnap, j, diff, threw,
          pre, commits, prevRows, prevClean, prev2Ids, prev2Clean,
          unreliable, subscriptions, SLACK_WEBHOOK_URL, alerts, csvResult, known, storage,
          exportsCurrent, response, effects, fault, preExports, prevPre, pending,
          objectIds, maxRecordCount, pageSize, offset, ids, fpc,
          retries, attempt, delay, waits, error, wpc, initialToken, preferParam,
          requests, lastResponse, mode, oauthEnv, cachedToken, now, issued, calls, last,
          token, refreshed, forced, thrown, apc, raw, attrs, ret, npc,
          generated, features, fetched, hashes, INGEST_SECRET, log, wipe, clients>>

hist == <<prevRows, prevClean, prev2Ids, prev2Clean, preExports, prevPre, pending>>

\* the state of fetchObjectIds and of the server it pages through
paging == <<objectIds, maxRecordCount, pageSize, offset, ids, fpc>>

\* the state of withRetry and of the calls it makes
retry == <<retries, attempt, delay, waits, error, wpc, initialToken, preferParam,
           requests, lastResponse>>

\* the state of getArcgisToken, its cache and the token server
auth == <<mode, oauthEnv, cachedToken, now, issued, calls, last>>

\* the state of arcgisPost
post == <<token, refreshed, forced, thrown, apc>>

\* the features fetched and normalised, and the tokens generated for them
fetches == <<generated, features, fetched, hashes>>

\* the state of a normZip or toRow call, and of the fetches
norm == <<raw, attrs, ret, npc, fetches>>

\* the state of the source client (arcgis.ts)
source == <<paging, retry, auth, post, norm>>

\* the state of the HTTP routes (alerts.routes.ts, debug.routes.ts)
http == <<INGEST_SECRET, log, wipe, clients>>

env == <<layer, unreliable, subscriptions, SLACK_WEBHOOK_URL, source, http>>

outs == <<alerts, csvResult, known, storage, exportsCurrent, response, effects>>

locals == <<existing, incomingIds, added, changed, removed, unchangedCount, batch, ops, i,
            idsToRemove, removedDocsSnap, j>>

\* the deployments explored: the source layer, the service that can fail,
\* the subscription store and whether the Slack webhook is configured
Deployments ==
    { [layer |-> l, unreliable |-> "store", subscriptions |-> AllSubs, slack |-> TRUE] :
        l \in {"small", "bulk"} }
    \cup { [layer |-> "small", unreliable |-> "none", subscriptions |-> AllSubs, slack |-> TRUE] }
    \cup { [layer |-> "small", unreliable |-> "subscriptions", subscriptions |-> S, slack |-> TRUE] :
             S \in SubStores }
    \cup { [layer |-> "small", unreliable |-> "source", subscriptions |-> AllSubs, slack |-> TRUE],
           [layer |-> "small", unreliable |-> "exports", subscriptions |-> AllSubs, slack |-> FALSE] }

\* no fetchObjectIds call
PagingIdle ==
    /\ objectIds = <<>> /\ maxRecordCount = 1 /\ pageSize = 1
    /\ offset = 0 /\ ids = <<>> /\ fpc = "off"

\* no withRetry call
RetryIdle ==
    /\ retries = 3 /\ attempt = 0 /\ delay = 300 /\ waits = <<>> /\ error = NULL
    /\ wpc = "off" /\ initialToken = NULL /\ preferParam = FALSE
    /\ requests = <<>> /\ lastResponse = NULL

\* the callers of getArcgisToken that can overlap
Callers == {1, 2}

NoCall == [pc |-> "idle", now |-> 0, serial |-> 0]

\* no getArcgisToken call, nothing cached
AuthIdle ==
    /\ mode = "oauth" /\ oauthEnv = TRUE /\ cachedToken = NULL /\ now = 0
    /\ issued = 0 /\ calls = [c \in Callers |-> NoCall] /\ last = NULL

\* no arcgisPost call
PostIdle == token = NULL /\ refreshed = NULL /\ forced = 0 /\ thrown = NULL /\ apc = "off"

\* no feature fetched, no token generated
FeedIdle == generated = 0 /\ features = <<>> /\ fetched = <<>> /\ hashes = <<>>

\* no normZip or toRow call
NormIdle == raw = JsNull /\ attrs = <<>> /\ ret = NULL /\ npc = "off" /\ FeedIdle

\* the source client at rest
SourceIdle == PagingIdle /\ RetryIdle /\ AuthIdle /\ PostIdle /\ NormIdle

\* no request received
HttpIdle == INGEST_SECRET = NULL /\ log = <<>> /\ wipe = NULL /\ clients = {}

\* the pipeline before the first run
PipelineInit ==
    /\ listings = <<>>
    /\ clock = 1
    /\ alerts = <<>>
    /\ csvResult = NULL
    /\ known = <<>>
    /\ storage = <<>>
    /\ exportsCurrent = NoDoc
    /\ response = NoResponse
    /\ effects = <<>>
    /\ fault = "none"
    /\ preExports = NoDoc
    /\ prevPre = <<>>
    /\ pending = {}
    /\ runs = 0
    /\ pc = "idle"
    /\ rows = <<>>
    /\ existing = <<>>
    /\ incomingIds = {}
    /\ added = <<>> /\ changed = <<>> /\ removed = <<>> /\ unchangedCount = 0
    /\ batch = <<>> /\ ops = 0
    /\ i = 1
    /\ idsToRemove = <<>>
    /\ removedDocsSnap = <<>>
    /\ j = 1
    /\ diff = EmptyDiff
    /\ threw = FALSE
    /\ pre = <<>>
    /\ commits = <<>>
    /\ prevRows = <<>>
    /\ prevClean = FALSE
    /\ prev2Ids = {}
    /\ prev2Clean = FALSE

\* the ingest pipeline and its store before the first run
IngestInit ==
    /\ PipelineInit
    /\ HttpIdle
    /\ \E d \in Deployments :
          /\ layer = d.layer
          /\ unreliable = d.unreliable
          /\ subscriptions = d.subscriptions
          /\ SLACK_WEBHOOK_URL = d.slack

Init ==
    /\ SourceIdle
    /\ IngestInit

\* what fetchAllArcgisRows can return: any small feed, or the bulk layer in
\* full or cut down to its first record
\* the pair layer: a fetch returns both records, the second variant of
\* record 1 alone, or nothing
PairFeeds == { <<SampleRow(1, 1), SampleRow(2, 1)>>, <<SampleRow(1, 2)>>, <<>> }

Feeds == IF layer = "small" THEN SmallFeeds
         ELSE IF layer = "pair" THEN PairFeeds
         ELSE IF runs = 0 THEN { BulkFeed(n) : n \in BulkSizes } \cup {BulkDupFeed}
         ELSE { rows, BulkFeed(1) }

\* the ingest runs explored in a deployment: most where nothing fails, one less
\* where the store, the source or the subscription lookups can fail, two less
\* where the exports fail or the subscription store is a partial one
RunCap == IF layer = "bulk" THEN BulkRuns
          ELSE IF layer = "pair" THEN ServiceRuns
          ELSE IF unreliable = "none" THEN MaxRuns
          ELSE IF unreliable = "exports" THEN MaxRuns - 2
          ELSE IF unreliable = "subscriptions" /\ subscriptions # AllSubs THEN MaxRuns - 2
          ELSE MaxRuns - 1

\* ids of the records a diff holds
DiffIds(d) ==
    { d.added[k].id : k \in DOMAIN d.added } \cup { d.changed[k].id : k \in DOMAIN d.changed }
    \cup { d.removed[k].id : k \in DOMAIN d.removed }

\* ids written by the batches of a list of commits
CommittedIds(cs) == UNION { { cs[c][k].id : k \in DOMAIN cs[c] } : c \in DOMAIN cs }

(***************************************************************************)
(* runIngest                                                               *)
(***************************************************************************)
\* const rows = await fetchAllArcgisRows(); upsertToFirestore(rows) is entered
runIngest_Fetch ==
    /\ pc = "idle"
    /\ runs < RunCap
    /\ \E feed \in Feeds : rows' = feed
    /\ runs' = runs + 1
    /\ pc' = "upsert"
    /\ pre' = listings
    /\ commits' = <<>>
    /\ threw' = FALSE
    /\ prevRows' = rows
    /\ prevClean' = (runs > 0 /\ ~threw)
    /\ prev2Ids' = { prevRows[k].id : k \in DOMAIN prevRows }
    /\ prev2Clean' = prevClean
    /\ diff' = EmptyDiff
    /\ existing' = <<>> /\ incomingIds' = {}
    /\ added' = <<>> /\ changed' = <<>> /\ removed' = <<>> /\ unchangedCount' = 0
    /\ batch' = <<>> /\ ops' = 0 /\ i' = 1
    /\ idsToRemove' = <<>> /\ removedDocsSnap' = <<>> /\ j' = 1
    /\ alerts' = <<>> /\ csvResult' = NULL /\ known' = <<>>
    /\ response' = NoResponse
    /\ effects' = <<>>
    /\ fault' = "none"
    /\ preExports' = exportsCurrent
    /\ prevPre' = Projection(pre)
    /\ pending' = (pending \cup CommittedIds(commits))
                   \ (IF "alerts" \in Range(effects) THEN DiffIds(diff) ELSE {})
    /\ UNCHANGED <<listings, clock, env, storage, exportsCurrent>>

\* variant of runIngest_FetchFails with the source error swallowed: the run
\* goes on as if the source had returned no rows
runIngest_FetchFails_Swallowed ==
    /\ pc = "idle"
    /\ runs < RunCap
    /\ unreliable = "source"
    /\ runs' = runs + 1
    /\ fault' = "source"
    /\ pc' = "upsert"
    /\ rows' = <<>>
    /\ response' = NoResponse
    /\ pre' = listings
    /\ preExports' = exportsCurrent
    /\ alerts' = <<>> /\ csvResult' = NULL /\ known' = <<>>
    /\ effects' = <<>>
    /\ commits' = <<>>
    /\ diff' = EmptyDiff
    /\ pending' = (pending \cup CommittedIds(commits))
                   \ (IF "alerts" \in Range(effects) THEN DiffIds(diff) ELSE {})
    /\ UNCHANGED <<listings, clock, env, locals, threw, prevRows,
                   prevClean, prev2Ids, prev2Clean, prevPre, storage, exportsCurrent>>

\* fetchAllArcgisRows rejects (in fetchObjectIds or in an attribute batch):
\* runIngest rethrows and the endpoint answers 500
runIngest_FetchFails ==
    /\ pc = "idle"
    /\ runs < RunCap
    /\ unreliable = "source"
    /\ \E phase \in {"fetchObjectIds", "fetchByObjectIdBatches"} :
          response' = [status |-> 500, ok |-> FALSE, error |-> phase]
    /\ runs' = runs + 1
    /\ fault' = "source"
    /\ pre' = listings
    /\ preExports' = exportsCurrent
    /\ alerts' = <<>> /\ csvResult' = NULL /\ known' = <<>>
    /\ effects' = <<>>
    /\ commits' = <<>>
    /\ diff' = EmptyDiff
    /\ pending' = (pending \cup CommittedIds(commits))
                   \ (IF "alerts" \in Range(effects) THEN DiffIds(diff) ELSE {})
    /\ UNCHANGED <<listings, clock, env, pc, rows, locals, threw, prevRows,
                   prevClean, prev2Ids, prev2Clean, prevPre, storage, exportsCurrent>>

\* if (alertCount > 0): every alert promise of the diff is started and
\* Promise.allSettled(alertPromises) is awaited
runIngest_Alerts ==
    /\ pc = "returned"
    /\ Len(diff.added) + Len(diff.changed) + Len(diff.removed) > 0
    /\ \E failed \in (IF unreliable = "subscriptions" THEN LookupFailures(alertPromises(diff))
                       ELSE {{}}) :
          alerts' = [k \in DOMAIN alertPromises(diff) |->
                        LET p == alertPromises(diff)[k]
                        IN  sendAlertsForProperty(subscriptions, SLACK_WEBHOOK_URL, p.property,
                                p.alert.types, { f[2] : f \in { g \in failed : g[1] = k } })
                            @@ [event |-> p.alert.event, id |-> p.property.id]]
    /\ effects' = Append(effects, "alerts")
    /\ pc' = "csv"
    /\ UNCHANGED <<listings, clock, env, runs, rows, locals, diff, threw, pre, commits, hist,
                   csvResult, known, storage, exportsCurrent, response, fault>>

\* alertCount is 0: no alert promise is created
runIngest_NoAlerts ==
    /\ pc = "returned"
    /\ Len(diff.added) + Len(diff.changed) + Len(diff.removed) = 0
    /\ pc' = "csv"
    /\ UNCHANGED <<listings, clock, env, runs, rows, locals, diff, threw, pre, commits, hist,
                   outs, fault>>

\* const csvResult = await writeCsvToStorage(rows)
runIngest_Csv ==
    /\ pc = "csv"
    /\ storage' = [f \in DOMAIN storage \cup {CsvPath} |->
                     IF f = CsvPath THEN rowsToCsv(rows) ELSE storage[f]]
    /\ csvResult' = Some(CsvPath)
    /\ effects' = Append(effects, "csv")
    /\ pc' = "aggregate"
    /\ UNCHANGED <<listings, clock, env, runs, rows, locals, diff, threw, pre, commits, hist,
                   alerts, known, exportsCurrent, response, fault>>

\* await Promise.all of the six aggregateSelections queries
runIngest_Aggregate ==
    /\ pc = "aggregate"
    /\ known' = [f \in { SelectionFields[k] : k \in DOMAIN SelectionFields } |->
                    aggregateSelections(listings, f)]
    /\ effects' = Append(effects, "aggregate")
    /\ pc' = "export"
    /\ UNCHANGED <<listings, clock, env, runs, rows, locals, diff, threw, pre, commits, hist,
                   alerts, csvResult, storage, exportsCurrent, response, fault>>

summary ==
    [new |-> Len(diff.added), changed |-> Len(diff.changed), removed |-> Len(diff.removed),
     unchanged |-> diff.unchangedCount, total |-> Len(rows)]

\* await db.doc("exports/current").set({...}, {merge: true}); return
\* {...summary, csv}; the endpoint answers res.json({ok: true, ...result})
runIngest_Export ==
    /\ pc = "export"
    /\ exportsCurrent' =
          ApplyOp(exportsCurrent,
                  SetOp("current",
                        summary @@ [csv |-> csvResult, updatedAt |-> ServerTimestamp,
                                    knownZips |-> known["zip"],
                                    knownNeighborhoods |-> known["neighborhood"],
                                    knownWards |-> known["ward"],
                                    knownUsages |-> known["usage"],
                                    knownStatuses |-> known["Status"],
                                    knownPropertyTypes |-> known["PropertyType"]],
                        TRUE),
                  clock)
    /\ clock' = clock + 1
    /\ response' = [status |-> 200, ok |-> TRUE, body |-> summary @@ [csv |-> csvResult]]
    /\ effects' = Append(effects, "export")
    /\ pc' = "idle"
    /\ UNCHANGED <<listings, env, runs, rows, locals, diff, threw, pre, commits, hist,
                   alerts, csvResult, known, storage, fault>>

\* file.save / getSignedUrl, an aggregation query or the write of
\* exports/current rejects: runIngest rethrows and the endpoint answers 500
runIngest_Throws ==
    /\ pc \in {"csv", "aggregate", "export"}
    /\ unreliable = "exports"
    /\ fault' = pc
    /\ response' = [status |-> 500, ok |-> FALSE, error |-> pc]
    /\ pc' = "idle"
    /\ UNCHANGED <<listings, clock, env, runs, rows, locals, diff, threw, pre, commits, hist,
                   alerts, csvResult, known, storage, exportsCurrent, effects>>

(***************************************************************************)
(* upsertToFirestore                                                       *)
(***************************************************************************)
\* if (rows.length === 0) return the empty diff
upsert_NoRows ==
    /\ pc = "upsert"
    /\ Len(rows) = 0
    /\ diff' = EmptyDiff
    /\ pc' = "returned"
    /\ UNCHANGED <<listings, clock, env, runs, rows, locals, threw, pre, commits,
                   hist, outs, fault>>

\* snap = await coll.select("contentHash", "removed").get(); existing; incomingIds
upsert_Snapshot ==
    /\ pc = "upsert"
    /\ Len(rows) > 0
    /\ existing' = Projection(listings)
    /\ incomingIds' = { rows[k].id : k \in DOMAIN rows }
    /\ added' = <<>> /\ changed' = <<>> /\ removed' = <<>> /\ unchangedCount' = 0
    /\ batch' = <<>> /\ ops' = 0
    /\ i' = 1
    /\ pc' = "loop"
    /\ UNCHANGED <<listings, clock, env, runs, rows, idsToRemove, removedDocsSnap, j, diff,
                   threw, pre, commits, hist, outs, fault>>

\* variant of Classify that leaves the stored removed flag out of the test
Classify_IgnoresRemoved(row, snapshot) ==
    IF row.id \notin DOMAIN snapshot THEN "added"
    ELSE IF snapshot[row.id].contentHash # contentFingerprint(row) THEN "changed"
    ELSE "unchanged"

\* the classification of one row against the snapshot
Classify(row, snapshot) ==
    IF row.id \notin DOMAIN snapshot THEN "added"
    ELSE IF snapshot[row.id].contentHash # contentFingerprint(row) \/ snapshot[row.id].removed
         THEN "changed"
    ELSE "unchanged"

\* variant of BatchFull that lets the counter pass the ceiling by one
BatchFull_OffByOne(n) == n > MAX_BATCH_OPERATIONS

\* the batch is committed when the counter reaches the ceiling
BatchFull(n) == n >= MAX_BATCH_OPERATIONS

\* the smallest number of further operations, among 1..avail, at which the
\* batch counter n makes the loop commit; 0 when the batch does not fill
FillCount(n, avail) ==
    LET FullAt == { d \in 1..avail : BatchFull(n + d) }
    IN  IF FullAt = {} THEN 0 ELSE CHOOSE d \in FullAt : \A e \in FullAt : d <= e

\* for (const row of rows): the iterations from row i up to the row whose
\* write fills the batch (the loop then awaits commitBatch) or to the last row
upsert_Rows ==
    /\ pc = "loop"
    /\ i <= Len(rows)
    /\ LET Written(p) == Classify(rows[p], existing) # "unchanged"
           IsAdded(r) == Classify(r, existing) = "added"
           IsChanged(r) == Classify(r, existing) = "changed"
           rest == [k \in 1..(Len(rows) - i + 1) |-> i + k - 1]
           W == SelectSeq(rest, Written)
           fill == FillCount(ops, Len(W))
           cut == IF fill > 0 THEN W[fill] ELSE Len(rows)
           n == IF fill > 0 THEN fill ELSE Len(W)
           seg == SubSeq(rows, i, cut)
       IN  /\ added' = added \o SelectSeq(seg, IsAdded)
           /\ changed' = changed \o SelectSeq(seg, IsChanged)
           /\ unchangedCount' = unchangedCount + (Len(seg) - n)
           /\ batch' = batch \o [k \in 1..n |->
                  SetOp(rows[W[k]].id,
                        buildListingDoc(rows[W[k]], contentFingerprint(rows[W[k]])),
                        MERGE_WRITES)]
           /\ ops' = ops + n
           /\ pc' = IF fill > 0 THEN "commitLoop" ELSE "loop"
           /\ i' = cut + 1
    /\ UNCHANGED <<listings, clock, env, runs, rows, existing, incomingIds, removed,
                   idsToRemove, removedDocsSnap, j, diff, threw, pre, commits, hist, outs, fault>>

\* snap.docs.filter(doc => !incomingIds.has(doc.id) && !doc.data().removed)
IdsToRemove(snapshot, incoming) ==
    SortedIds({ id \in DOMAIN snapshot : id \notin incoming /\ ~snapshot[id].removed })

\* the for loop is over: idsToRemove is computed from the snapshot
upsert_LoopDone ==
    /\ pc = "loop"
    /\ i > Len(rows)
    /\ idsToRemove' = IdsToRemove(existing, incomingIds)
    /\ pc' = IF Len(idsToRemove') > 0 THEN "getAll" ELSE "final"
    /\ UNCHANGED <<listings, clock, env, runs, rows, existing, incomingIds, added, changed,
                   removed, unchangedCount, batch, ops, i, removedDocsSnap, j, diff, threw,
                   pre, commits, hist, outs, fault>>

\* removedDocsSnap = await db.getAll(...idsToRemove.map(id => coll.doc(id)))
upsert_GetAll ==
    /\ pc = "getAll"
    /\ removedDocsSnap' =
          [k \in DOMAIN idsToRemove |->
              IF idsToRemove[k] \in DOMAIN listings
              THEN [exists |-> TRUE, id |-> idsToRemove[k], data |-> listings[idsToRemove[k]]]
              ELSE [exists |-> FALSE, id |-> idsToRemove[k], data |-> <<>>]]
    /\ j' = 1
    /\ pc' = "removing"
    /\ UNCHANGED <<listings, clock, env, runs, rows, existing, incomingIds, added, changed,
                   removed, unchangedCount, batch, ops, i, idsToRemove, diff, threw,
                   pre, commits, hist, outs, fault>>

\* variant of RemoveOp that deletes the document
RemoveOp_Delete(id) == [kind |-> "delete", id |-> id, data |-> <<>>, merge |-> FALSE]

\* variant of RemoveOp that writes the two fields with set() instead of update()
RemoveOp_Overwrite(id) == SetOp(id, [removed |-> TRUE, removedAt |-> ServerTimestamp], FALSE)

\* batch.update(doc.ref, { removed: true, removedAt: serverTimestamp() })
RemoveOp(id) == UpdateOp(id, [removed |-> TRUE, removedAt |-> ServerTimestamp])

\* for (const doc of removedDocsSnap): the iterations from document j up to
\* the document whose update fills the batch or to the last document
upsert_Removes ==
    /\ pc = "removing"
    /\ j <= Len(removedDocsSnap)
    /\ LET Exists(p) == removedDocsSnap[p].exists
           rest == [k \in 1..(Len(removedDocsSnap) - j + 1) |-> j + k - 1]
           W == SelectSeq(rest, Exists)
           fill == FillCount(ops, Len(W))
           cut == IF fill > 0 THEN W[fill] ELSE Len(removedDocsSnap)
           n == IF fill > 0 THEN fill ELSE Len(W)
       IN  /\ removed' = removed \o [k \in 1..n |-> removedDocsSnap[W[k]].data]
           /\ batch' = batch \o [k \in 1..n |-> RemoveOp(removedDocsSnap[W[k]].id)]
           /\ ops' = ops + n
           /\ pc' = IF fill > 0 THEN "commitRemove" ELSE "removing"
           /\ j' = cut + 1
    /\ UNCHANGED <<listings, clock, env, runs, rows, existing, incomingIds, added, changed,
                   unchangedCount, i, idsToRemove, removedDocsSnap, diff, threw,
                   pre, commits, hist, outs, fault>>

upsert_RemoveDone ==
    /\ pc = "removing"
    /\ j > Len(removedDocsSnap)
    /\ pc' = "final"
    /\ UNCHANGED <<listings, clock, env, runs, rows, locals, diff, threw, pre, commits,
                   hist, outs, fault>>

Result == [added |-> added, changed |-> changed, removed |-> removed, unchangedCount |-> unchangedCount]

\* if (ops > 0) await batch.commit(); return { added, changed, removed, unchangedCount }
upsert_Final ==
    /\ pc = "final"
    /\ IF ops > 0
       THEN pc' = "commitFinal" /\ diff' = diff
       ELSE pc' = "returned" /\ diff' = Result
    /\ UNCHANGED <<listings, clock, env, runs, rows, locals, threw, pre, commits,
                   hist, outs, fault>>

CommitPoints == {"commitLoop", "commitRemove", "commitFinal"}

\* await batch.commit() succeeds: the whole batch is applied atomically;
\* commitBatch hands back a new empty batch and the caller resets ops
commitBatch ==
    /\ pc \in CommitPoints
    /\ Committable(listings, batch) = TRUE
    /\ listings' = ApplyBatch(listings, batch, clock)
    /\ clock' = clock + 1
    /\ commits' = Append(commits, batch)
    /\ IF pc = "commitFinal"
       THEN /\ pc' = "returned"
            /\ diff' = Result
            /\ UNCHANGED <<batch, ops>>
       ELSE /\ pc' = (IF pc = "commitLoop" THEN "loop" ELSE "removing")
            /\ batch' = <<>>
            /\ ops' = 0
            /\ diff' = diff
    /\ UNCHANGED <<env, runs, rows, existing, incomingIds, added, changed, removed,
                   unchangedCount, i, idsToRemove, removedDocsSnap, j, threw, pre,
                   hist, outs, fault>>

\* catch (error): the error is logged and the empty diff is returned
Catch ==
    /\ diff' = EmptyDiff
    /\ threw' = TRUE
    /\ pc' = "returned"
    /\ UNCHANGED <<listings, clock, env, runs, rows, locals, pre, commits, hist, outs>>

\* variant of commitFails with the rejection caught per commit: the rejected
\* batch is dropped and the run goes on with the next batch
commitFails_GoesOn ==
    /\ pc \in CommitPoints
    /\ unreliable = "store"
    /\ fault' = "commit"
    /\ threw' = TRUE
    /\ IF pc = "commitFinal"
       THEN /\ pc' = "returned"
            /\ diff' = EmptyDiff
            /\ UNCHANGED <<batch, ops>>
       ELSE /\ pc' = (IF pc = "commitLoop" THEN "loop" ELSE "removing")
            /\ batch' = <<>>
            /\ ops' = 0
            /\ diff' = diff
    /\ UNCHANGED <<listings, clock, env, runs, rows, existing, incomingIds, added, changed,
                   removed, unchangedCount, i, idsToRemove, removedDocsSnap, j, pre, commits, hist, outs>>

\* the store rejects batch.commit(): nothing of the batch is applied
commitFails ==
    /\ pc \in CommitPoints
    /\ unreliable = "store"
    /\ fault' = "commit"
    /\ Catch

\* a read of the store (the snapshot query or db.getAll) rejects
readFails ==
    /\ \/ pc = "upsert" /\ Len(rows) > 0
       \/ pc = "getAll"
    /\ unreliable = "store"
    /\ fault' = "read"
    /\ Catch

Next ==
    \/ runIngest_Fetch
    \/ upsert_NoRows
    \/ upsert_Snapshot
    \/ upsert_Rows
    \/ upsert_LoopDone
    \/ upsert_GetAll
    \/ upsert_Removes
    \/ upsert_RemoveDone
    \/ upsert_Final
    \/ commitBatch
    \/ commitFails
    \/ readFails
    \/ runIngest_FetchFails
    \/ runIngest_Alerts
    \/ runIngest_NoAlerts
    \/ runIngest_Csv
    \/ runIngest_Aggregate
    \/ runIngest_Export
    \/ runIngest_Throws

Spec == Init /\ [][Next]_vars

(***************************************************************************)
(* The source client: identifier paging (fetchObjectIds)                   *)
(***************************************************************************)

\* everything outside the source client
ingest == <<listings, clock, layer, unreliable, subscriptions, SLACK_WEBHOOK_URL,
            runs, pc, rows, locals, diff, threw, pre, commits, hist, outs, fault, http>>

\* the pipeline at rest in the fault-free deployment
IngestAtRest == IngestInit /\ layer = "small" /\ unreliable = "none"

MaxMatching == 5
MaxPageSize == 3
MaxLimit == 3

Min(a, b) == IF a < b THEN a ELSE b

\* the ids 1..n in OBJECTID order
IdList(n) == [k \in 1..n |-> k]

\* the server's answer to a returnIdsOnly query: at most
\* min(resultRecordCount, maxRecordCount) ids from resultOffset on, and
\* exceededTransferLimit when matching ids remain beyond them
queryIds(resultRecordCount, resultOffset) ==
    LET n    == Min(Min(resultRecordCount, maxRecordCount),
                    IF resultOffset < Len(objectIds) THEN Len(objectIds) - resultOffset ELSE 0)
    IN  [objectIds |-> SubSeq(objectIds, resultOffset + 1, resultOffset + n),
         exceededTransferLimit |-> resultOffset + n < Len(objectIds)]

InitPaging ==
    /\ IngestAtRest
    /\ NormIdle
    /\ PostIdle
    /\ RetryIdle
    /\ AuthIdle
    /\ \E n \in 0..MaxMatching : objectIds = IdList(n)
    /\ maxRecordCount \in 1..MaxLimit
    /\ pageSize \in 1..MaxPageSize
    /\ offset = 0 /\ ids = <<>> /\ fpc = "off"

\* let offset = 0; const ids = []
fetchObjectIds_Start ==
    /\ fpc = "off"
    /\ offset' = 0
    /\ ids' = <<>>
    /\ fpc' = "request"
    /\ UNCHANGED <<objectIds, maxRecordCount, pageSize, retry, auth, post, norm, ingest>>

\* variant of the loop that goes on only after a full page, whatever the flag
fetchObjectIds_Page_FullOnly ==
    /\ fpc = "request"
    /\ LET json     == queryIds(pageSize, offset)
           chunk    == json.objectIds
       IN  /\ ids' = ids \o chunk
           /\ IF Len(chunk) < pageSize
                THEN fpc' = "returned" /\ offset' = offset
                ELSE fpc' = "request" /\ offset' = offset + pageSize
    /\ UNCHANGED <<objectIds, maxRecordCount, pageSize, retry, auth, post, norm, ingest>>

\* one turn of the loop: the request for one page, its chunk, and the break
\* or the advance of the offset
fetchObjectIds_Page ==
    /\ fpc = "request"
    /\ LET json     == queryIds(pageSize, offset)
           chunk    == json.objectIds
           exceeded == json.exceededTransferLimit
       IN  /\ ids' = ids \o chunk
           /\ IF Len(chunk) < pageSize /\ ~exceeded
                THEN fpc' = "returned" /\ offset' = offset
                ELSE fpc' = "request" /\ offset' = offset + pageSize
    /\ UNCHANGED <<objectIds, maxRecordCount, pageSize, retry, auth, post, norm, ingest>>

\* arcgisPost rejects: fetchObjectIds rejects with it
fetchObjectIds_Throws ==
    /\ fpc = "request"
    /\ fpc' = "threw"
    /\ UNCHANGED <<objectIds, maxRecordCount, pageSize, offset, ids, retry, auth, post, norm, ingest>>

NextPaging ==
    \/ fetchObjectIds_Start
    \/ fetchObjectIds_Page
    \/ fetchObjectIds_Throws

SpecPaging == InitPaging /\ [][NextPaging]_vars

\* the call is made and every request is answered: the function resumes after
\* each await; a request need not fail
SpecPagingFair ==
    /\ SpecPaging
    /\ WF_vars(fetchObjectIds_Start)
    /\ WF_vars(fetchObjectIds_Page)

(***************************************************************************)
(* The source client: doCall and the retry wrapper (withRetry)             *)
(*                                                                         *)
(* An error message is the sequence of its words; a run of digits is a     *)
(* word of its own, so a number stands between non-digits or at an end of  *)
(* the message exactly when it is a word.                                  *)
(***************************************************************************)

MaxRetries == 3

\* Math.random() * 300, at the ends of its range
Jitters == {0, 299}

HttpResponse(status, text) ==
    [status |-> status, isJson |-> FALSE, error |-> NULL, text |-> text]

JsonError(code, message) ==
    [status |-> 200, isJson |-> TRUE, error |-> Some([code |-> code, message |-> message]),
     text |-> <<>>]

JsonOk == [status |-> 200, isJson |-> TRUE, error |-> NULL, text |-> <<>>]

\* what the source server can answer to one request
Responses ==
    { JsonOk,
      HttpResponse(401, <<"Unauthorized">>),
      HttpResponse(503, <<"Service", "Unavailable">>),
      HttpResponse(503, <<"retry", "after", "499", "ms">>),
      HttpResponse(200, <<"<html>">>),
      JsonError(498, <<"Invalid", "token">>),
      JsonError(500, <<"Timeout">>) }

\* doCall once the response is in: the parsed body, or the error thrown
doCall(res) ==
    IF res.status \notin 200..299
        THEN [ok |-> FALSE, message |-> <<"HTTP", ToString(res.status), ":">> \o res.text]
    ELSE IF ~res.isJson
        THEN [ok |-> FALSE, message |-> <<"Non-JSON", "from", "ArcGIS", ":">> \o res.text]
    ELSE IF res.error # NULL
        THEN [ok |-> FALSE,
              message |-> <<"ArcGIS", "error", ToString(res.error[1].code), ":">>
                          \o res.error[1].message \o <<"[]">>]
    ELSE [ok |-> TRUE, message |-> <<>>]

\* /(^|[^0-9])(401|498|499)([^0-9]|$)/.test(msg)
nonRetryableAuth(msg) == \E k \in DOMAIN msg : msg[k] \in {"401", "498", "499"}

Exhausted_OneEarly(n, r) == n >= r

\* ++attempt > retries
Exhausted(n, r) == n > r

InitRetry ==
    /\ IngestAtRest
    /\ NormIdle
    /\ PostIdle
    /\ PagingIdle
    /\ AuthIdle
    /\ retries \in 0..MaxRetries
    /\ attempt = 0 /\ delay = 300 /\ waits = <<>> /\ error = NULL
    /\ wpc = "call" /\ initialToken = NULL /\ preferParam = FALSE
    /\ requests = <<>> /\ lastResponse = NULL

\* one invocation of fn and, when it rejects, the catch block up to the wait
withRetry_Call ==
    /\ wpc = "call"
    /\ requests' = Append(requests, [token |-> initialToken, viaParam |-> preferParam,
                                      by |-> "withRetry"])
    /\ \E res \in Responses :
          /\ lastResponse' = Some(res)
          /\ IF doCall(res).ok
                THEN wpc' = "returned" /\ UNCHANGED <<attempt, error>>
                ELSE /\ error' = Some(doCall(res).message)
                     /\ IF nonRetryableAuth(doCall(res).message)
                           THEN wpc' = "threw" /\ UNCHANGED attempt
                           ELSE /\ attempt' = attempt + 1
                                /\ wpc' = IF Exhausted(attempt + 1, retries)
                                             THEN "threw" ELSE "sleep"
    /\ UNCHANGED <<retries, delay, waits, initialToken, preferParam, paging, auth, post, norm, ingest>>

\* the wait before the next invocation, and delay *= 2
withRetry_Sleep ==
    /\ wpc = "sleep"
    /\ \E jitter \in Jitters : waits' = Append(waits, [delay |-> delay, jitter |-> jitter])
    /\ delay' = delay * 2
    /\ wpc' = "call"
    /\ UNCHANGED <<retries, attempt, error, initialToken, preferParam, requests,
                   lastResponse, paging, auth, post, norm, ingest>>

NextRetry ==
    \/ withRetry_Call
    \/ withRetry_Sleep

SpecRetry == InitRetry /\ [][NextRetry]_vars

(***************************************************************************)
(* The source client: the token cache (getArcgisToken)                     *)
(***************************************************************************)

MaxCalls == 3
MaxTicks == 2

\* the steps by which the clock moves between two events, in ms
Ticks == {30000, 3510000}

\* process.env.ARCGIS_TOKEN
ARCGIS_TOKEN == <<"static", 0>>

\* the n-th access token of the token server
AccessToken(n) == <<"oauth", n>>

\* json.expires_in of a token response, in seconds
ExpiresIn == {10, 3600}

Max(a, b) == IF a > b THEN a ELSE b

Fresh_NoMargin(cache, t) == cache # NULL /\ cache[1].expiresAt > t

\* cachedToken && cachedToken.expiresAt - 60_000 > now
Fresh(cache, t) == cache # NULL /\ cache[1].expiresAt - 60000 > t

\* one step of a getArcgisToken call: its arguments, what it found, what it
\* did and the cache it left
Step(kind, force, t, requested, ok, result, after) ==
    Some([kind |-> kind, mode |-> mode, force |-> force, before |-> cachedToken,
          now |-> t, requested |-> requested, ok |-> ok, result |-> result,
          after |-> after])

InitToken ==
    /\ IngestAtRest
    /\ NormIdle
    /\ PostIdle
    /\ PagingIdle
    /\ RetryIdle
    /\ mode \in {"none", "static", "oauth"}
    /\ oauthEnv \in BOOLEAN
    /\ cachedToken = NULL /\ now = 0 /\ issued = 0
    /\ calls = [c \in Callers |-> NoCall] /\ last = NULL

\* getArcgisToken(forceRefresh) up to its return, its throw or its fetch
getArcgisToken_Call(c, forceRefresh) ==
    /\ calls[c].pc = "idle"
    /\ issued < MaxCalls
    /\ IF mode = "none"
         THEN /\ last' = Step("call", forceRefresh, now, FALSE, TRUE, NULL, cachedToken)
              /\ UNCHANGED <<calls, issued>>
       ELSE IF mode = "static"
         THEN /\ last' = Step("call", forceRefresh, now, FALSE, TRUE, ARCGIS_TOKEN, cachedToken)
              /\ UNCHANGED <<calls, issued>>
       ELSE IF ~forceRefresh /\ Fresh(cachedToken, now)
         THEN /\ last' = Step("call", forceRefresh, now, FALSE, TRUE,
                               cachedToken[1].accessToken, cachedToken)
              /\ UNCHANGED <<calls, issued>>
       ELSE IF ~oauthEnv
         THEN /\ last' = Step("call", forceRefresh, now, FALSE, FALSE, NULL, cachedToken)
              /\ UNCHANGED <<calls, issued>>
       ELSE /\ issued' = issued + 1
            /\ calls' = [calls EXCEPT ![c] = [pc |-> "fetch", now |-> now, serial |-> issued + 1]]
            /\ last' = Step("call", forceRefresh, now, TRUE, TRUE, NULL, cachedToken)
    /\ UNCHANGED <<mode, oauthEnv, cachedToken, now, paging, retry, post, norm, ingest>>

\* the token response is in: the checks, the write of the cache, the return
getArcgisToken_Response(c) ==
    /\ calls[c].pc = "fetch"
    /\ \E expiresIn \in ExpiresIn :
          LET entry == Some([accessToken |-> AccessToken(calls[c].serial),
                             expiresAt |-> calls[c].now + Max(30000, expiresIn * 1000)])
          IN  /\ cachedToken' = entry
              /\ last' = Step("response", FALSE, calls[c].now, FALSE, TRUE,
                               AccessToken(calls[c].serial), entry)
    /\ calls' = [calls EXCEPT ![c] = NoCall]
    /\ UNCHANGED <<mode, oauthEnv, now, issued, paging, retry, post, norm, ingest>>

\* the token response is not ok, not JSON or without access_token: the call throws
getArcgisToken_Throws(c) ==
    /\ calls[c].pc = "fetch"
    /\ last' = Step("response", FALSE, calls[c].now, FALSE, FALSE, NULL, cachedToken)
    /\ calls' = [calls EXCEPT ![c] = NoCall]
    /\ UNCHANGED <<mode, oauthEnv, cachedToken, now, issued, paging, retry, post, norm, ingest>>

\* the number of steps the clock has made to reach t
TickCount(t) == (t \div 3510000) + ((t % 3510000) \div 30000)

\* time passes
Tick ==
    /\ TickCount(now) < MaxTicks
    /\ \E d \in Ticks : now' = now + d
    /\ UNCHANGED <<mode, oauthEnv, cachedToken, issued, calls, last, paging, retry, post, norm, ingest>>

NextToken ==
    \/ \E c \in Callers, forceRefresh \in BOOLEAN : getArcgisToken_Call(c, forceRefresh)
    \/ \E c \in Callers : getArcgisToken_Response(c)
    \/ \E c \in Callers : getArcgisToken_Throws(c)
    \/ Tick

SpecToken == InitToken /\ [][NextToken]_vars

(***************************************************************************)
(* The source client: one request with its authentication (arcgisPost)     *)
(***************************************************************************)

\* a token passed in by the caller
CallerToken == <<"caller", 0>>

\* a token cached by an earlier request, good for an hour
EarlierToken == Some([accessToken |-> AccessToken(0), expiresAt |-> 3600000])

\* await getArcgisToken(forceRefresh), from the call to its end: each outcome
\* is the token returned or the throw, the cache it leaves and the token
\* requests it sent
getArcgisToken(forceRefresh) ==
    IF mode = "none"
        THEN { [ok |-> TRUE, token |-> NULL, cache |-> cachedToken, sent |-> 0] }
    ELSE IF mode = "static"
        THEN { [ok |-> TRUE, token |-> ARCGIS_TOKEN, cache |-> cachedToken, sent |-> 0] }
    ELSE IF ~forceRefresh /\ Fresh(cachedToken, now)
        THEN { [ok |-> TRUE, token |-> cachedToken[1].accessToken, cache |-> cachedToken,
                sent |-> 0] }
    ELSE IF ~oauthEnv
        THEN { [ok |-> FALSE, token |-> NULL, cache |-> cachedToken, sent |-> 0] }
    ELSE { [ok |-> FALSE, token |-> NULL, cache |-> cachedToken, sent |-> 1] }
         \cup { [ok |-> TRUE, token |-> AccessToken(issued + 1),
                 cache |-> Some([accessToken |-> AccessToken(issued + 1),
                                 expiresAt |-> now + Max(30000, expiresIn * 1000)]),
                 sent |-> 1] : expiresIn \in ExpiresIn }

\* /(HTTP\s*401|ArcGIS error\s*(498|499))/.test(msg)
isAuthErr(msg) ==
    \E k \in DOMAIN msg :
        \/ k + 1 <= Len(msg) /\ msg[k] = "HTTP" /\ msg[k + 1] = "401"
        \/ k + 2 <= Len(msg) /\ msg[k] = "ArcGIS" /\ msg[k + 1] = "error"
              /\ msg[k + 2] \in {"498", "499"}

InitPost ==
    /\ IngestAtRest
    /\ NormIdle
    /\ PagingIdle
    /\ mode \in {"none", "static", "oauth"}
    /\ oauthEnv \in BOOLEAN
    /\ cachedToken \in (IF mode = "oauth" /\ oauthEnv THEN {NULL, EarlierToken} ELSE {NULL})
    /\ now = 0 /\ issued = 0 /\ calls = [c \in Callers |-> NoCall] /\ last = NULL
    /\ token \in {NULL, CallerToken}
    /\ preferParam \in BOOLEAN
    /\ refreshed = NULL /\ forced = 0 /\ thrown = NULL /\ apc = "off"
    /\ retries = 3 /\ attempt = 0 /\ delay = 300 /\ waits = <<>> /\ error = NULL
    /\ wpc = "off" /\ initialToken = NULL
    /\ requests = <<>> /\ lastResponse = NULL

\* initialToken = token ?? (mode !== "none" ? await getArcgisToken() : undefined),
\* then withRetry(() => doCall(initialToken, preferParam), 3) starts
arcgisPost_Begin ==
    /\ apc = "off"
    /\ \E o \in (IF token # NULL \/ mode = "none"
                    THEN { [ok |-> TRUE, token |-> token, cache |-> cachedToken, sent |-> 0] }
                    ELSE getArcgisToken(FALSE)) :
          /\ cachedToken' = o.cache
          /\ issued' = issued + o.sent
          /\ IF o.ok
                THEN /\ initialToken' = o.token
                     /\ apc' = "withRetry"
                     /\ wpc' = "call"
                     /\ UNCHANGED thrown
                ELSE /\ apc' = "threw"
                     /\ thrown' = Some(<<"OAuth", "token">>)
                     /\ UNCHANGED <<initialToken, wpc>>
    /\ UNCHANGED <<retries, attempt, delay, waits, error, preferParam, requests, lastResponse,
                   mode, oauthEnv, now, calls, last, token, refreshed, forced, paging, norm, ingest>>

\* withRetry resolved: arcgisPost returns the body
arcgisPost_Return ==
    /\ apc = "withRetry" /\ wpc = "returned"
    /\ apc' = "returned"
    /\ UNCHANGED <<token, refreshed, forced, thrown, retry, auth, paging, norm, ingest>>

\* withRetry rejected: the catch block up to its rethrow, or through the
\* forced refresh, or to the fallback
arcgisPost_Catch ==
    /\ apc = "withRetry" /\ wpc = "threw"
    /\ IF ~isAuthErr(error[1]) \/ token # NULL
         THEN /\ apc' = "threw"
              /\ thrown' = error
              /\ UNCHANGED <<refreshed, forced, cachedToken, issued>>
       ELSE IF mode = "oauth"
         THEN /\ forced' = forced + 1
              /\ \E o \in getArcgisToken(TRUE) :
                    /\ cachedToken' = o.cache
                    /\ issued' = issued + o.sent
                    /\ IF o.ok THEN refreshed' = o.token /\ apc' = "retry"
                               ELSE refreshed' = refreshed /\ apc' = "fallback"
              /\ UNCHANGED thrown
       ELSE /\ apc' = "fallback"
            /\ UNCHANGED <<refreshed, forced, thrown, cachedToken, issued>>
    /\ UNCHANGED <<token, retry, mode, oauthEnv, now, calls, last, paging, norm, ingest>>

\* return await doCall(refreshed, preferParam), and the catch that swallows its error
arcgisPost_Retry ==
    /\ apc = "retry"
    /\ requests' = Append(requests, [token |-> refreshed, viaParam |-> preferParam,
                                      by |-> "refresh"])
    /\ \E res \in Responses :
          /\ lastResponse' = Some(res)
          /\ apc' = IF doCall(res).ok THEN "returned" ELSE "fallback"
    /\ UNCHANGED <<retries, attempt, delay, waits, error, wpc, initialToken, preferParam,
                   token, refreshed, forced, thrown, auth, paging, norm, ingest>>

\* effective = initialToken ?? (mode === "oauth" ? await getArcgisToken() : undefined),
\* then return await doCall(effective, !preferParam)
arcgisPost_Fallback ==
    /\ apc = "fallback"
    /\ \E o \in (IF initialToken # NULL \/ mode # "oauth"
                    THEN { [ok |-> TRUE, token |-> initialToken, cache |-> cachedToken,
                            sent |-> 0] }
                    ELSE getArcgisToken(FALSE)) :
          /\ cachedToken' = o.cache
          /\ issued' = issued + o.sent
          /\ IF ~o.ok
                THEN /\ apc' = "threw"
                     /\ thrown' = Some(<<"OAuth", "token">>)
                     /\ UNCHANGED <<requests, lastResponse>>
                ELSE /\ requests' = Append(requests, [token |-> o.token,
                                                       viaParam |-> ~preferParam,
                                                       by |-> "fallback"])
                     /\ \E res \in Responses :
                           /\ lastResponse' = Some(res)
                           /\ IF doCall(res).ok
                                 THEN apc' = "returned" /\ UNCHANGED thrown
                                 ELSE apc' = "threw" /\ thrown' = Some(doCall(res).message)
    /\ UNCHANGED <<retries, attempt, delay, waits, error, wpc, initialToken, preferParam,
                   mode, oauthEnv, now, calls, last, token, refreshed, forced, paging, norm, ingest>>

NextPost ==
    \/ arcgisPost_Begin
    \/ withRetry_Call
    \/ withRetry_Sleep
    \/ arcgisPost_Return
    \/ arcgisPost_Catch
    \/ arcgisPost_Retry
    \/ arcgisPost_Fallback

SpecPost == InitPost /\ [][NextPost]_vars

(***************************************************************************)
(* The source client: normalisation (normZip, pickAttr, toRow)             *)
(***************************************************************************)

MaxZipLen == 6

IsDigit(c) == \E k \in DOMAIN Digits : Digits[k] = c

\* the value of a digit character
DigitValue(c) == (CHOOSE k \in DOMAIN Digits : Digits[k] = c) - 1

IsSpace(c) == c = " "

RECURSIVE trimStart(_)
trimStart(s) == IF s # <<>> /\ IsSpace(Head(s)) THEN trimStart(Tail(s)) ELSE s

RECURSIVE trimEnd(_)
trimEnd(s) == IF s # <<>> /\ IsSpace(s[Len(s)]) THEN trimEnd(SubSeq(s, 1, Len(s) - 1)) ELSE s

trim(s) == trimEnd(trimStart(s))

\* s.slice(0, n)
slice(s, n) == SubSeq(s, 1, Min(n, Len(s)))

RECURSIVE padStart_AtEnd(_, _, _)
padStart_AtEnd(s, n, c) == IF Len(s) >= n THEN s ELSE padStart_AtEnd(Append(s, c), n, c)

\* s.padStart(n, c)
RECURSIVE padStart(_, _, _)
padStart(s, n, c) == IF Len(s) >= n THEN s ELSE padStart(<<c>> \o s, n, c)

\* normZip(raw): null, or the string of five digits
normZip(v) ==
    IF v.type = "null" THEN NULL
    ELSE LET digits == SelectSeq(trim(String(v)), IsDigit)
         IN  IF digits # <<>> THEN Some(padStart(slice(digits, 5), 5, "0")) ELSE NULL

\* the strings of at most n characters over an alphabet
Strings(alphabet, n) == UNION { [1..k -> alphabet] : k \in 0..n }

ZipChars == {"0", "6", "-"}

\* the inputs of normZip: null, short strings of digits and dashes, the
\* documented examples, padded and non-digit strings, and numbers
ZipInputs ==
    {JsNull}
    \cup { JsString(s) : s \in Strings(ZipChars, MaxZipLen) }
    \cup { JsString(<<"6", "3", "1", "0", "4", "-", "1", "2", "3", "4">>),
           JsString(<<"1", "0", "4">>),
           JsString(<<" ", "1", "0", "4", " ">>),
           JsString(<<"n", "/", "a">>),
           JsNumber(63104), JsNumber(104), JsNumber(631041234), JsInfinity }

InitZip ==
    /\ IngestAtRest
    /\ PagingIdle /\ RetryIdle /\ AuthIdle /\ PostIdle
    /\ raw \in ZipInputs
    /\ attrs = <<>> /\ ret = NULL /\ npc = "input"
    /\ FeedIdle

normZip_Apply ==
    /\ npc = "input"
    /\ ret' = normZip(raw)
    /\ npc' = "normZip"
    /\ UNCHANGED <<raw, attrs, fetches, paging, retry, auth, post, ingest>>

NextZip == normZip_Apply

SpecZip == InitZip /\ [][NextZip]_vars

\* the aliases of the normalised fields, in the order they are tried
FIELD_ALIASES ==
    [parcelId |-> <<"ParcelId", "PARCELID", "Parcel", "PARCEL">>,
     ward |-> <<"WARD", "Ward", "Wards">>,
     zip  |-> <<"ZipCode", "ZIPCODE", "Zip", "ZIP", "PostalCode", "POSTALCODE">>,
     sqft |-> <<"SQFT", "SqFt", "SquareFeet", "Square_Footage">>]

\* attrs[alias] != null
Present(a, alias) == alias \in DOMAIN a /\ a[alias].type # "null"

\* pickAttr(attrs, aliases): the value of the first alias that is there and
\* not null, else null
pickAttr(a, aliases) ==
    IF \E k \in DOMAIN aliases : Present(a, aliases[k])
        THEN a[aliases[CHOOSE k \in DOMAIN aliases :
                         /\ Present(a, aliases[k])
                         /\ \A m \in 1..(k - 1) : ~Present(a, aliases[m])]]
        ELSE JsNull

\* the number written by a string of digits
RECURSIVE DecimalValue(_)
DecimalValue(s) ==
    IF s = <<>> THEN 0
    ELSE 10 * DecimalValue(SubSeq(s, 1, Len(s) - 1)) + DigitValue(s[Len(s)])

\* Number(value): null is 0, a string is trimmed and then 0 when empty, its
\* value when it is digits, NaN otherwise
Number(v) ==
    IF v.type = "null" THEN JsNumber(0)
    ELSE IF v.type = "string"
        THEN LET t == trim(v.s)
             IN  IF t = <<>> THEN JsNumber(0)
                 ELSE IF \A k \in DOMAIN t : IsDigit(t[k]) THEN JsNumber(DecimalValue(t))
                 ELSE JsNaN
    ELSE v

\* Number.isFinite(value)
isFinite(v) == v.type = "number"

\* attrs?.KEY ?? null
Passthrough(a, key) == IF key \in DOMAIN a THEN a[key] ELSE JsNull

\* whether a value counts as true in a condition: not null, 0, NaN or ""
Truthy(v) ==
    /\ v.type \notin {"null", "NaN"}
    /\ v.type = "number" => v.n # 0
    /\ v.type = "string" => v.s # <<>>

\* genUuid(): the n-th token it generates; no two calls return the same token
genUuid(n) == <<"u", "u", "i", "d", "-">> \o DecimalString(n)

\* attrs[a] ?? attrs[b]
Coalesce(a, x, y) == IF Present(a, x) THEN a[x] ELSE Passthrough(a, y)

\* toRow(attrs): the raw OBJECTID, Shape, Parcel, ParcelId, WARD, ZipCode and
\* SQFT and the normalised id, parcelId, ward, zip and sqft of the row; uuid is
\* what genUuid() returns if toRow calls it
toRow(a, uuid) ==
    LET sqftRaw == pickAttr(a, FIELD_ALIASES.sqft)
        sqft    == IF sqftRaw.type = "number" THEN sqftRaw
                   ELSE IF sqftRaw.type = "string" THEN Number(sqftRaw)
                   ELSE JsNull
        wardRaw == pickAttr(a, FIELD_ALIASES.ward)
        ward    == IF wardRaw.type = "number" THEN wardRaw ELSE Number(wardRaw)
        zip     == normZip(pickAttr(a, FIELD_ALIASES.zip))
        parcel   == pickAttr(a, FIELD_ALIASES.parcelId)
        objectId == Coalesce(a, "OBJECTID", "ObjectId")
        id       == IF Truthy(parcel) THEN String(parcel)
                    ELSE IF objectId.type # "null" /\ String(objectId) # <<>>
                        THEN String(objectId)
                    ELSE uuid
    IN  [OBJECTID |-> objectId,
         Shape    |-> Passthrough(a, "Shape"),
         Parcel   |-> Passthrough(a, "Parcel"),
         ParcelId |-> Passthrough(a, "ParcelId"),
         id       |-> id,
         parcelId |-> IF Truthy(parcel) THEN Some(String(parcel)) ELSE NULL,
         WARD    |-> Passthrough(a, "WARD"),
         ZipCode |-> Passthrough(a, "ZipCode"),
         SQFT    |-> Passthrough(a, "SQFT"),
         ward    |-> IF isFinite(ward) THEN Some(Number(ward).n) ELSE NULL,
         zip     |-> zip,
         sqft    |-> IF isFinite(sqft) THEN Some(Number(sqft).n) ELSE NULL]

\* the values a numeric attribute can arrive with
NumericInputs ==
    { JsNull, JsNumber(7), JsInfinity,
      JsString(<<>>), JsString(<<"1", "2">>), JsString(<<" ", "7", " ">>), JsString(<<"a">>) }

\* the attribute names the inputs are drawn over
AttrKeys == {"WARD", "Wards", "SQFT"}

\* the values the identifying attributes can arrive with: ParcelId is a
\* string or null, Parcel and the object identifiers are numbers or null
IdInputs ==
    [ParcelId |-> { JsNull, JsString(<<>>), JsString(<<"7", "A">>) },
     Parcel   |-> { JsNull, JsNumber(0), JsNumber(7) },
     OBJECTID |-> { JsNull, JsNumber(0), JsNumber(5) },
     ObjectId |-> { JsNull, JsNumber(6) }]

\* the identifying attributes a feature can arrive with: none, or any one or
\* two of the parcel aliases and the object identifiers
IdAttrs ==
    UNION { { a \in [D -> UNION { IdInputs[k] : k \in D }] : \A k \in D : a[k] \in IdInputs[k] } :
              D \in { {}, {"ParcelId"}, {"Parcel"}, {"OBJECTID"}, {"ObjectId"},
                      {"ParcelId", "Parcel"}, {"ParcelId", "OBJECTID"}, {"Parcel", "OBJECTID"},
                      {"OBJECTID", "ObjectId"} } }

InitRow ==
    /\ IngestAtRest
    /\ PagingIdle /\ RetryIdle /\ AuthIdle /\ PostIdle
    /\ raw = JsNull
    /\ \E D \in SUBSET AttrKeys, withZip \in BOOLEAN, idAttrs \in IdAttrs :
          \E a \in [D -> NumericInputs] :
              attrs = IF withZip
                        THEN a @@ idAttrs
                               @@ [key \in {"ZipCode"} |-> JsString(<<"6", "3", "1", "0", "4">>)]
                        ELSE a @@ idAttrs
    /\ ret = NULL /\ npc = "input"
    /\ FeedIdle

toRow_Apply ==
    /\ npc = "input"
    /\ ret' = Some(toRow(attrs, genUuid(generated + 1)))
    /\ npc' = "toRow"
    /\ generated' = IF ret'[1].id = genUuid(generated + 1) THEN generated + 1 ELSE generated
    /\ UNCHANGED <<raw, attrs, features, fetched, hashes, paging, retry, auth, post, ingest>>

NextRow == toRow_Apply

SpecRow == InitRow /\ [][NextRow]_vars

(***************************************************************************)
(* The rows of a fetch and their fingerprints (fetchByObjectIdBatches,     *)
(* contentFingerprint)                                                     *)
(***************************************************************************)
MaxFetches == 2       \* fetches of the source layer
MaxFeatures == 2      \* features of one fetch

\* the keys of the object toRow returns, in the order of its literal
LraRowKeys ==
    <<"OBJECTID", "Shape", "Parcel", "ParcelId", "WARD", "ZipCode", "SQFT",
      "id", "parcelId", "ward", "zip", "sqft">>

\* the value of a property of a row
Property(row, key) ==
    IF key = "id" THEN JsString(row.id)
    ELSE IF key \in {"parcelId", "zip"}
        THEN IF row[key] = NULL THEN JsNull ELSE JsString(row[key][1])
    ELSE IF key \in {"ward", "sqft"}
        THEN IF row[key] = NULL THEN JsNull ELSE JsNumber(row[key][1])
    ELSE row[key]

RECURSIVE Join(_, _)
Join(texts, sep) ==
    IF texts = <<>> THEN <<>>
    ELSE IF Len(texts) = 1 THEN texts[1]
    ELSE texts[1] \o sep \o Join(Tail(texts), sep)

\* JSON.stringify of a value: a number that is not finite becomes null, an
\* object lists its members in insertion order
JSON_stringify(v) ==
    IF v.type = "number" THEN DecimalString(v.n)
    ELSE IF v.type = "string" THEN <<"\"">> \o v.s \o <<"\"">>
    ELSE IF v.type = "object"
        THEN <<"{">> \o Join([k \in DOMAIN v.s |-> <<v.s[k]>>], <<",">>) \o <<"}">>
    ELSE <<"null">>

\* JSON.stringify(row): the properties in the order toRow wrote them
stringifyRow(row) ==
    <<"{">>
    \o Join([k \in DOMAIN LraRowKeys |->
                <<LraRowKeys[k], ":">> \o JSON_stringify(Property(row, LraRowKeys[k]))], <<",">>)
    \o <<"}">>

\* createHash("sha1").update(text).digest("hex"), taken as collision-free
sha1(text) == text

\* the features of the model: with and without identifiers, two that share a
\* parcel, a parcel number that equals an object identifier, one geometry
\* written in two member orders, a ward as a number and as a string, and an
\* area that is not finite (the JSON number 1e999) or null
SampleFeatures ==
    LET oid(n) == [OBJECTID |-> JsNumber(n)]
    IN  { <<>>,
          oid(1),
          oid(5),
          oid(1) @@ [ParcelId |-> JsString(<<"7", "A">>)],
          oid(2) @@ [ParcelId |-> JsString(<<"7", "A">>)],
          oid(6) @@ [Parcel |-> JsNumber(5)],
          oid(1) @@ [Shape |-> JsObject(<<"\"x\":1", "\"y\":2">>)],
          oid(1) @@ [Shape |-> JsObject(<<"\"y\":2", "\"x\":1">>)],
          oid(1) @@ [WARD |-> JsNumber(5)],
          oid(1) @@ [WARD |-> JsString(<<"5">>)],
          oid(1) @@ [SQFT |-> JsInfinity],
          oid(1) @@ [SQFT |-> JsNull] }

\* what the layer can hold and every fetch returns: MaxFeatures or fewer features
FeatureLists == UNION { [1..n -> SampleFeatures] : n \in 0..MaxFeatures }

\* attrs.map(toRow): the rows of a list of features; n tokens were generated before
RECURSIVE mapToRow(_, _)
mapToRow(list, n) ==
    IF list = <<>> THEN <<>>
    ELSE LET row == toRow(Head(list), genUuid(n + 1))
         IN  <<row>> \o mapToRow(Tail(list), IF row.id = genUuid(n + 1) THEN n + 1 ELSE n)

\* the rows whose id is a generated token
Generated(list) == Len(SelectSeq(list, LAMBDA r : \E n \in 1..(MaxFetches * MaxFeatures) : r.id = genUuid(n)))

InitFetch ==
    /\ IngestAtRest
    /\ PagingIdle /\ RetryIdle /\ AuthIdle /\ PostIdle
    /\ raw = JsNull /\ attrs = <<>> /\ ret = NULL /\ npc = "off"
    /\ generated = 0
    /\ features \in FeatureLists
    /\ fetched = <<>> /\ hashes = <<>>

\* fetchAllArcgisRows returns: every feature of the response went through toRow
fetchAllArcgisRows_Return ==
    /\ Len(fetched) < MaxFetches
    /\ Len(hashes) = Len(fetched)
    /\ LET list == mapToRow(features, generated)
       IN  /\ fetched' = Append(fetched, list)
           /\ generated' = generated + Generated(list)
    /\ UNCHANGED <<raw, attrs, ret, npc, features, hashes, paging, retry, auth, post, ingest>>

\* upsertToFirestore: const hash = contentFingerprint(row), for each row
upsertToFirestore_Fingerprint ==
    /\ Len(hashes) < Len(fetched)
    /\ hashes' = Append(hashes, [k \in DOMAIN fetched[Len(fetched)] |->
                                    sha1(stringifyRow(fetched[Len(fetched)][k]))])
    /\ UNCHANGED <<raw, attrs, ret, npc, generated, features, fetched,
                   paging, retry, auth, post, ingest>>

NextFetch == fetchAllArcgisRows_Return \/ upsertToFirestore_Fingerprint

SpecFetch == InitFetch /\ [][NextFetch]_vars

(***************************************************************************)
(* The alert routes (alerts.routes.ts) behind protect (auth.middleware.ts) *)
(***************************************************************************)
MaxRequests == 3

VALID_SUBSCRIPTION_TYPES == <<"zip", "parcel", "ward", "neighborhood">>

\* verifyIdToken: the uid of the user a token was issued to; it rejects every
\* other token
IdTokens == [t1 |-> "u1", t2 |-> "u2", t3 |-> "u1_zip"]

\* the uid a token claims: a forged token claims to be of u1
Claims == IdTokens @@ [forged |-> "u1"]

\* an Authorization header: its scheme and what follows it
Header(scheme, idToken) == Some([scheme |-> scheme, token |-> idToken])

\* variant of protect that decodes the token without verifying it
protect_Decode(authorization) ==
    IF authorization = NULL \/ authorization[1].scheme # "Bearer" THEN NULL
    ELSE Some(Claims[authorization[1].token])

\* protect: the uid of req.user, or NULL when it answers 401: no header, a
\* header that does not start with "Bearer ", or a token verifyIdToken rejects
protect(authorization) ==
    IF authorization = NULL \/ authorization[1].scheme # "Bearer" THEN NULL
    ELSE IF authorization[1].token \in DOMAIN IdTokens
        THEN Some(IdTokens[authorization[1].token])
    ELSE NULL

\* request bodies: the type (NULL when missing) and the value (JsNull when
\* missing or null)
Body(type, value) == [type |-> type, value |-> value]
ValidBodies ==
    { Body(Some("ward"), JsNumber(5)), Body(Some("ward"), JsString(<<"5">>)),
      Body(Some("zip"), JsString(<<"5">>)),
      Body(Some("zip"), JsString(<<"z", "i", "p", "_", "5">>)) }
InvalidBodies ==
    { Body(Some("city"), JsNumber(5)), Body(NULL, JsNumber(5)), Body(Some("ward"), JsNull) }

\* the requests of the model: u1 sends every body, the others one each
AlertRequests ==
    { [authorization |-> Header("Bearer", "t1"), body |-> b] : b \in ValidBodies \cup InvalidBodies }
    \cup { [authorization |-> Header("Bearer", "t2"), body |-> Body(Some("ward"), JsNumber(5))],
            [authorization |-> Header("Bearer", "t3"), body |-> Body(Some("zip"), JsString(<<"5">>))] }
    \cup { [authorization |-> a, body |-> Body(Some("ward"), JsNumber(5))] :
              a \in {NULL, Header("Basic", "t1"), Header("Bearer", "forged")} }
\* the GET requests: one per Authorization header the clients send
ReadRequests ==
    { [authorization |-> a, body |-> Body(NULL, JsNull)] :
        a \in { req.authorization : req \in clients } }

\* a request received and the answer to it
Entry(route, method, req, status, list) ==
    [route |-> route, method |-> method, authorization |-> req.authorization,
     type |-> req.body.type, value |-> req.body.value, status |-> status, alerts |-> list,
     key |-> NULL, run |-> 0]

\* the body is refused with status 400
BadBody(body) ==
    \/ body.type = NULL \/ body.type = Some("") \/ body.value = JsNull
    \/ body.type[1] \notin Range(VALID_SUBSCRIPTION_TYPES)

\* everything outside the routes: the deployment and the ingest pipeline
deployment == <<layer, unreliable, SLACK_WEBHOOK_URL, source>>
pipeline == <<runs, pc, rows, locals, diff, threw, pre, commits, hist, outs, fault>>

\* GET /alerts
alerts_Get ==
    /\ Len(log) < MaxRequests
    /\ \E req \in ReadRequests :
          LET user == protect(req.authorization)
          IN  IF user = NULL
                  THEN log' = Append(log, Entry("/alerts", "GET", req, 401, NULL))
                  ELSE log' = Append(log, Entry("/alerts", "GET", req, 200,
                                                Some(getAlerts(subscriptions, user[1]))))
    /\ UNCHANGED <<subscriptions, clock, listings, deployment, pipeline, INGEST_SECRET, wipe,
                   clients>>

\* POST /alerts: createAlert throws when the uid is empty
alerts_Post ==
    /\ Len(log) < MaxRequests
    /\ \E req \in clients :
          LET user == protect(req.authorization)
              Answer(status) == log' = Append(log, Entry("/alerts", "POST", req, status, NULL))
          IN  IF user = NULL THEN Answer(401) /\ UNCHANGED <<subscriptions, clock>>
              ELSE IF BadBody(req.body) THEN Answer(400) /\ UNCHANGED <<subscriptions, clock>>
              ELSE IF user[1] = "" THEN Answer(500) /\ UNCHANGED <<subscriptions, clock>>
              ELSE /\ subscriptions' = createAlert(subscriptions, user[1], req.body.type[1],
                                                   req.body.value, clock)
                   /\ clock' = clock + 1
                   /\ Answer(201)
    /\ UNCHANGED <<listings, deployment, pipeline, INGEST_SECRET, wipe, clients>>

\* DELETE /alerts
alerts_Delete ==
    /\ Len(log) < MaxRequests
    /\ \E req \in clients :
          LET user == protect(req.authorization)
              Answer(status) == log' = Append(log, Entry("/alerts", "DELETE", req, status, NULL))
          IN  IF user = NULL THEN Answer(401) /\ UNCHANGED <<subscriptions, clock>>
              ELSE IF BadBody(req.body) THEN Answer(400) /\ UNCHANGED <<subscriptions, clock>>
              ELSE /\ subscriptions' = removeAlert(subscriptions, user[1], req.body.type[1],
                                                   req.body.value)
                   /\ clock' = clock + 1
                   /\ Answer(200)
    /\ UNCHANGED <<listings, deployment, pipeline, INGEST_SECRET, wipe, clients>>

\* the routes over an empty subscription store, the pipeline at rest
InitAlerts ==
    /\ SourceIdle
    /\ PipelineInit
    /\ INGEST_SECRET = NULL /\ log = <<>> /\ wipe = NULL
    /\ clients = AlertRequests
    /\ layer = "small" /\ unreliable = "none" /\ SLACK_WEBHOOK_URL = TRUE
    /\ subscriptions = <<>>

NextAlerts == alerts_Get \/ alerts_Post \/ alerts_Delete

SpecAlerts == InitAlerts /\ [][NextAlerts]_vars

(***************************************************************************)
(* The administrative routes POST /ingest and POST /wipe (debug.routes.ts) *)
(* next to the alert routes                                                *)
(***************************************************************************)
\* the values of INGEST_SECRET and of the x-ingest-key header (NULL: not set,
\* no header)
Secrets == {NULL, Some(""), Some("k1")}
Keys == {NULL, Some(""), Some("k1"), Some("k2")}

\* variant of the guard that only compares the header with the secret
Unauthorized_KeyOnly(key) == key # INGEST_SECRET

\* !expectedSecret || req.get("x-ingest-key") !== expectedSecret
Unauthorized(key) ==
    INGEST_SECRET = NULL \/ INGEST_SECRET[1] = "" \/ key # INGEST_SECRET

\* a request to an administrative route and the answer to it; status 0: not
\* answered yet; run: the ingest run the request starts
AdminEntry(route, key, status, run) ==
    [route |-> route, method |-> "POST", authorization |-> NULL, type |-> NULL,
     value |-> JsNull, status |-> status, alerts |-> NULL, key |-> key, run |-> run]

\* the accepted requests that wait for their answer
Pending(route) == { k \in DOMAIN log : log[k].route = route /\ log[k].status = 0 }

\* POST /ingest up to the call of runIngest; one accepted administrative
\* request at a time
ingest_Post ==
    /\ Len(log) < MaxRequests
    /\ \E key \in Keys :
          IF Unauthorized(key)
              THEN log' = Append(log, AdminEntry("/ingest", key, 401, 0))
              ELSE /\ pc = "idle" /\ Pending("/ingest") = {} /\ wipe = NULL
                   /\ runs < RunCap
                   /\ log' = Append(log, AdminEntry("/ingest", key, 0, runs + 1))
    /\ UNCHANGED <<listings, clock, subscriptions, deployment, pipeline, INGEST_SECRET, wipe,
                   clients>>

\* the run of an accepted request has not started
Starting == \E k \in Pending("/ingest") : log[k].run = runs + 1
\* the run of an accepted request is under way
Running == \E k \in Pending("/ingest") : log[k].run = runs

\* POST /ingest after runIngest returned or threw: the answer
ingest_Respond ==
    /\ pc = "idle"
    /\ \E k \in Pending("/ingest") :
          /\ log[k].run = runs
          /\ log' = [log EXCEPT ![k].status = response.status]
    /\ UNCHANGED <<listings, clock, subscriptions, deployment, pipeline, INGEST_SECRET, wipe,
                   clients>>

\* POST /wipe up to coll.get(): the answer when the snapshot is empty
wipe_Post ==
    /\ Len(log) < MaxRequests
    /\ \E key \in Keys :
          IF Unauthorized(key)
              THEN log' = Append(log, AdminEntry("/wipe", key, 401, 0)) /\ UNCHANGED wipe
              ELSE /\ pc = "idle" /\ Pending("/ingest") = {} /\ wipe = NULL
                   /\ IF DOMAIN listings = {}
                          THEN /\ log' = Append(log, AdminEntry("/wipe", key, 200, 0))
                               /\ UNCHANGED wipe
                          ELSE /\ log' = Append(log, AdminEntry("/wipe", key, 0, 0))
                               /\ wipe' = Some(DOMAIN listings)
    /\ UNCHANGED <<listings, clock, subscriptions, deployment, pipeline, INGEST_SECRET, clients>>

\* POST /wipe: the batch of deletes, one per document of the snapshot (fewer
\* than MAX_BATCH_OPERATIONS), is committed and the request answered
wipe_Commit ==
    /\ wipe # NULL
    /\ listings' = [id \in DOMAIN listings \ wipe[1] |-> listings[id]]
    /\ clock' = clock + 1
    /\ wipe' = NULL
    /\ \E k \in Pending("/wipe") : log' = [log EXCEPT ![k].status = 200]
    /\ UNCHANGED <<subscriptions, deployment, pipeline, INGEST_SECRET, clients>>

\* the /alerts requests sent to the deployment
ServiceRequests ==
    { [authorization |-> a, body |-> Body(Some("ward"), JsNumber(0))] :
        a \in {Header("Bearer", "t1"), Header("Bearer", "forged")} }

\* the fault-free deployment over the pair layer with the subscriptions of
\* the model, any secret
InitService ==
    /\ SourceIdle
    /\ PipelineInit
    /\ INGEST_SECRET \in Secrets /\ log = <<>> /\ wipe = NULL
    /\ clients = ServiceRequests
    /\ layer = "pair" /\ unreliable = "none" /\ SLACK_WEBHOOK_URL = TRUE
    /\ subscriptions = AllSubs

NextService ==
    \/ alerts_Get
    \/ alerts_Post
    \/ alerts_Delete
    \/ ingest_Post
    \/ ingest_Respond
    \/ wipe_Post
    \/ wipe_Commit
    \/ Starting /\ runIngest_Fetch
    \/ Running /\ upsert_NoRows
    \/ Running /\ upsert_Snapshot
    \/ Running /\ upsert_Rows
    \/ Running /\ upsert_LoopDone
    \/ Running /\ upsert_GetAll
    \/ Running /\ upsert_Removes
    \/ Running /\ upsert_RemoveDone
    \/ Running /\ upsert_Final
    \/ Running /\ commitBatch
    \/ Running /\ runIngest_Alerts
    \/ Running /\ runIngest_NoAlerts
    \/ Running /\ runIngest_Csv
    \/ Running /\ runIngest_Aggregate
    \/ Running /\ runIngest_Export

SpecService == InitService /\ [][NextService]_vars

(***************************************************************************)
(* Helpers of the properties                                               *)
(***************************************************************************)
IdsOf(list) == { list[k].id : k \in DOMAIN list }
CountId(list, id) == Cardinality({ k \in DOMAIN list : list[k].id = id })
LiveIds(store) == { id \in DOMAIN store : ~store[id].removed }
RunReturned == pc = "returned" /\ ~threw
RunFailed == pc = "returned" /\ threw
\* rows of the run that upsertToFirestore counted as unchanged, per id
UnchangedOf(id) == CountId(rows, id) - CountId(diff.added, id) - CountId(diff.changed, id)

(***************************************************************************)
(* C1: a second ingest run over the source data of a completed run gives   *)
(* an empty added, changed and removed list and commits no write.          *)
(***************************************************************************)
C1_IngestIdempotent ==
    (RunReturned /\ prevClean /\ rows = prevRows) =>
        /\ diff.added = <<>> /\ diff.changed = <<>> /\ diff.removed = <<>>
        /\ diff.unchangedCount = Len(rows)
        /\ commits = <<>>

(***************************************************************************)
(* C2: in a run that returned its diff, every stored non-removed id and    *)
(* every incoming id is counted exactly once over added, changed, removed  *)
(* and unchanged.                                                          *)
(***************************************************************************)
C2_PartitionComplete ==
    RunReturned =>
        /\ \A id \in IdsOf(rows) \cup LiveIds(pre) :
              CountId(diff.added, id) + CountId(diff.changed, id)
                + CountId(diff.removed, id) + UnchangedOf(id) = 1
        /\ diff.unchangedCount = Len(rows) - Len(diff.added) - Len(diff.changed)

(***************************************************************************)
(* C3: the rows processed so far are in added exactly when their id is not *)
(* stored, in changed exactly when it is stored with another fingerprint   *)
(* or with removed = true, and counted unchanged otherwise; stored         *)
(* {P1:H1} and incoming {P1 with H1, P2} give added = [P2], unchanged = 1. *)
(***************************************************************************)
C3_ClassificationRule ==
    LET processed == SubSeq(rows, 1, i - 1)
        IsAdded(r) == r.id \notin DOMAIN pre
        IsChanged(r) == /\ r.id \in DOMAIN pre
                        /\ \/ pre[r.id].contentHash # contentFingerprint(r)
                           \/ pre[r.id].removed
    IN  /\ pc \notin {"idle", "upsert"} =>
              /\ added = SelectSeq(processed, IsAdded)
              /\ changed = SelectSeq(processed, IsChanged)
              /\ unchangedCount = Len(processed) - Len(added) - Len(changed)
        /\ RunReturned /\ Len(rows) > 0 => diff.added = added /\ diff.changed = changed
                                            /\ diff.unchangedCount = unchangedCount
        /\ ( /\ RunReturned
             /\ rows = <<SampleRow(1, 1), SampleRow(2, 1)>>
             /\ DOMAIN pre = {1}
             /\ pre[1].contentHash = contentFingerprint(SampleRow(1, 1))
             /\ ~pre[1].removed )
           => diff = [added |-> <<SampleRow(2, 1)>>, changed |-> <<>>, removed |-> <<>>,
                      unchangedCount |-> 1]

C3_Witness ==
    /\ RunReturned
    /\ rows = <<SampleRow(1, 1), SampleRow(2, 1)>>
    /\ DOMAIN pre = {1}
    /\ pre[1].contentHash = contentFingerprint(SampleRow(1, 1))
    /\ ~pre[1].removed
    /\ diff.added = <<SampleRow(2, 1)>>

(***************************************************************************)
(* C4: a record present in one run, absent from the next and present again *)
(* in the third is classified changed by the third run, not added or       *)
(* unchanged, and its stored removed flag is false afterwards.             *)
(***************************************************************************)
C4_ReappearedIsChanged ==
    (RunReturned /\ prevClean /\ prev2Clean) =>
        \A id \in (IdsOf(rows) \cap prev2Ids) \ IdsOf(prevRows) :
            /\ CountId(diff.changed, id) = CountId(rows, id)
            /\ id \notin IdsOf(diff.added)
            /\ id \in DOMAIN listings /\ ~listings[id].removed

(***************************************************************************)
(* C5: in a run that returned its diff, the removed list holds exactly the *)
(* stored ids that are absent from the incoming set and not yet flagged    *)
(* removed, each once.                                                     *)
(***************************************************************************)
C5_RemovedExact ==
    RunReturned =>
        /\ IdsOf(diff.removed) = LiveIds(pre) \ IdsOf(rows)
        /\ Len(diff.removed) = Cardinality(IdsOf(diff.removed))

(***************************************************************************)
(* C6: the write applied to a record classified removed sets removed to    *)
(* true and removedAt to a timestamp and leaves every other stored field   *)
(* of the document, contentHash and id included, as it was.                *)
(***************************************************************************)
RemovalApplied(id) ==
    id \in DOMAIN pre /\ (id \notin DOMAIN listings \/ listings[id] # pre[id])

C6_SoftDeleteFrame ==
    \A k \in DOMAIN removed :
        LET id == removed[k].id
        IN  RemovalApplied(id) =>
              /\ id \in DOMAIN listings
              /\ DOMAIN listings[id] = DOMAIN pre[id] \cup {"removedAt"}
              /\ listings[id].removed = TRUE
              /\ listings[id].removedAt \in 1..(clock - 1)
              /\ \A f \in DOMAIN pre[id] \ {"removed", "removedAt"} : listings[id][f] = pre[id][f]

C6_Witness ==
    /\ RunReturned
    /\ \E k \in DOMAIN removed :
          /\ RemovalApplied(removed[k].id)
          /\ listings[removed[k].id].contentHash = pre[removed[k].id].contentHash
          /\ listings[removed[k].id].addressKeywords # <<>>

(***************************************************************************)
(* C7: no step of an ingest run, successful or failing, takes a document   *)
(* id out of the listings collection.                                      *)
(***************************************************************************)
C7_NeverDeleted == [][DOMAIN listings \subseteq DOMAIN listings']_vars

C7_Witness ==
    /\ pc = "returned"
    /\ \E id \in DOMAIN listings : listings[id].removed /\ id \notin IdsOf(rows)
    /\ \E id \in DOMAIN pre : ~pre[id].removed /\ listings[id].removed

(***************************************************************************)
(* C8: after a run, a document written as added or changed holds exactly   *)
(* the fields of the new record plus addressLower, addressKeywords,        *)
(* removed = false, contentHash and updatedAt; no other field of the       *)
(* previously stored version (such as removedAt) survives.                 *)
(***************************************************************************)
RowFields == { RowKeys[k] : k \in DOMAIN RowKeys }
DerivedFields == {"addressLower", "addressKeywords", "removed", "contentHash", "updatedAt"}
SetCommitted(id) ==
    \E c \in DOMAIN commits : \E k \in DOMAIN commits[c] :
        commits[c][k].id = id /\ id \in incomingIds

C8_OverwriteNotMerge ==
    pc = "returned" =>
        \A id \in incomingIds :
            SetCommitted(id) =>
              /\ id \in DOMAIN listings
              /\ DOMAIN listings[id] = RowFields \cup DerivedFields
              /\ listings[id].removed = FALSE
              /\ listings[id].updatedAt \in 1..(clock - 1)
              /\ \E n \in DOMAIN rows :
                    /\ rows[n].id = id
                    /\ \A f \in RowFields : listings[id][f] = rows[n][f]
                    /\ listings[id].contentHash = contentFingerprint(rows[n])

C8_Witness ==
    /\ RunReturned
    /\ \E id \in incomingIds :
          /\ SetCommitted(id)
          /\ id \in DOMAIN pre
          /\ "removedAt" \in DOMAIN pre[id]
          /\ "removedAt" \notin DOMAIN listings[id]

(***************************************************************************)
(* C9: every committed batch holds 1 to 450 operations, a full batch is    *)
(* committed before another operation is accumulated, n writes are         *)
(* committed as floor(n/450) batches of 450 and then the remainder, and    *)
(* 1000 new records give the commits 450, 450, 100.                        *)
(***************************************************************************)
CommitSizes == [c \in DOMAIN commits |-> Len(commits[c])]

C9_BatchCeiling ==
    /\ Len(batch) <= 450
    /\ pc \in {"loop", "getAll", "removing", "final"} => Len(batch) < 450
    /\ \A c \in DOMAIN commits : Len(commits[c]) >= 1 /\ Len(commits[c]) <= 450
    /\ RunReturned =>
          LET n == Len(diff.added) + Len(diff.changed) + Len(diff.removed)
          IN  /\ Len(commits) = (n \div 450) + (IF n % 450 = 0 THEN 0 ELSE 1)
              /\ \A c \in DOMAIN commits :
                    Len(commits[c]) = IF c <= n \div 450 THEN 450 ELSE n % 450
    /\ (RunReturned /\ Len(rows) = 1000 /\ Len(diff.added) = 1000) => CommitSizes = <<450, 450, 100>>

C9_Witness ==
    /\ RunReturned
    /\ Len(rows) = 1000 /\ Len(diff.added) = 1000
    /\ CommitSizes = <<450, 450, 100>>

(***************************************************************************)
(* C10: when a commit of a run is rejected after k batches were committed, *)
(* the store holds the writes of those k batches and no later write;       *)
(* 1000 new records with the 3rd commit rejected leave 900 documents.      *)
(***************************************************************************)
\* the document ids of the writes of the run, in the order they are issued
WriteOrder ==
    LET Written(r) == \/ r.id \notin DOMAIN pre
                      \/ pre[r.id].contentHash # contentFingerprint(r)
                      \/ pre[r.id].removed
        upserts == SelectSeq(rows, Written)
    IN  [k \in DOMAIN upserts |-> upserts[k].id] \o SortedIds(LiveIds(pre) \ IdsOf(rows))

C10_PartialCommitDurable ==
    RunFailed =>
        LET order == WriteOrder
            m == 450 * Len(commits)
            done == { order[k] : k \in 1..m }
        IN  /\ m <= Len(order)
            /\ \A id \in done :
                  /\ id \in DOMAIN listings
                  /\ id \in DOMAIN pre => listings[id] # pre[id]
                  /\ listings[id].removed = (id \notin IdsOf(rows))
            /\ \A id \in (DOMAIN listings \cup DOMAIN pre) \ done :
                  id \in DOMAIN pre /\ id \in DOMAIN listings /\ listings[id] = pre[id]
            /\ (Len(rows) = 1000 /\ pre = <<>> /\ Len(commits) = 2)
                  => Cardinality(DOMAIN listings) = 900

C10_Witness ==
    /\ RunFailed
    /\ Len(rows) = 1000 /\ pre = <<>> /\ Len(commits) = 2
    /\ Cardinality(DOMAIN listings) = 900

(***************************************************************************)
(* C11: when the store rejects a batch commit the ingest run stops at that *)
(* point with an error: in that run no alert is dispatched, no CSV is      *)
(* written and exports/current is not written afterwards, and the trigger  *)
(* endpoint answers with a failure status instead of a summary.            *)
(***************************************************************************)
C11_BatchFailureAborts ==
    fault = "commit" =>
        /\ effects = <<>>
        /\ alerts = <<>>
        /\ exportsCurrent = preExports
        /\ response.status # 200
        /\ pc = "idle" => response.status = 500

(***************************************************************************)
(* C12: if an ingest run fails after committing some of its batches and    *)
(* the run is then repeated to completion with the same source data, the   *)
(* listings state (per id: content hash and removed flag) equals the state *)
(* an uninterrupted run over that data would have produced.                *)
(***************************************************************************)
\* the state an uninterrupted run over list produces from the stored state p:
\* the last written row of an id decides its hash, absent ids are flagged
Uninterrupted(p, list) ==
    IF list = <<>> THEN p
    ELSE [id \in DOMAIN p \cup IdsOf(list) |->
            IF id \in IdsOf(list)
            THEN LET Written(r) == /\ r.id = id
                                   /\ \/ id \notin DOMAIN p
                                      \/ p[id].contentHash # contentFingerprint(r)
                                      \/ p[id].removed
                     w == SelectSeq(list, Written)
                 IN  IF w = <<>> THEN p[id]
                     ELSE [contentHash |-> contentFingerprint(w[Len(w)]), removed |-> FALSE]
            ELSE [contentHash |-> p[id].contentHash, removed |-> TRUE]]

PrevRunFailed == runs >= 2 /\ ~prevClean

C12_RerunResumes ==
    (RunReturned /\ PrevRunFailed /\ rows = prevRows) =>
        Projection(listings) = Uninterrupted(prevPre, rows)

(***************************************************************************)
(* C13: every record whose stored state was altered by a committed batch   *)
(* is contained in the diff handed to the alert dispatcher, in the run     *)
(* that committed the change or in a later rerun: once the rerun of a      *)
(* failed run over the same data has passed its alert step, no altered     *)
(* record is left unreported.                                              *)
(***************************************************************************)
\* ids altered by a committed batch up to now and in no dispatched diff
Unreported ==
    (pending \cup CommittedIds(commits))
    \ (IF "alerts" \in Range(effects) THEN DiffIds(diff) ELSE {})

C13_AtLeastOnce ==
    (pc = "csv" /\ ~threw /\ PrevRunFailed /\ rows = prevRows) => Unreported = {}

(***************************************************************************)
(* C14: if fetching from the source fails for good (in the identifier      *)
(* phase or in an attribute batch) the ingest run aborts with that error   *)
(* and has committed no write to listings or exports/current and           *)
(* dispatched no alert.                                                    *)
(***************************************************************************)
C14_SourceFailureLeavesStore ==
    fault = "source" =>
        /\ pc = "idle"
        /\ response.status = 500
        /\ listings = pre
        /\ commits = <<>>
        /\ exportsCurrent = preExports
        /\ alerts = <<>>
        /\ effects = <<>>

\* a store filled by an earlier run is left as it was by a run whose fetch failed
C14_Witness ==
    /\ fault = "source"
    /\ response.status = 500
    /\ LiveIds(listings) # {}
    /\ exportsCurrent # NoDoc
    /\ listings = pre /\ exportsCurrent = preExports

(***************************************************************************)
(* C15: an added or removed event consults the subscriptions of the types  *)
(* zip, parcel, ward and neighborhood, a changed event only parcel, ward   *)
(* and neighborhood; no zip subscription is notified by a changed event,   *)
(* whatever the subscription store contains.                               *)
(***************************************************************************)
TypesOf(outcome) == { outcome.tasks[t].type : t \in DOMAIN outcome.tasks }
SentOf(outcome) ==
    UNION { { [type |-> outcome.tasks[t].type] @@ outcome.tasks[t].sent[n] :
                n \in DOMAIN outcome.tasks[t].sent } : t \in DOMAIN outcome.tasks }

C15_AlertAsymmetry ==
    \A k \in DOMAIN alerts :
        /\ alerts[k].event \in {"added", "removed"}
              => TypesOf(alerts[k]) = {"zip", "parcel", "ward", "neighborhood"}
        /\ alerts[k].event = "changed"
              => /\ TypesOf(alerts[k]) = {"parcel", "ward", "neighborhood"}
                 /\ \A m \in SentOf(alerts[k]) : subscriptions[m.subscription].type # "zip"

\* a changed record whose zip has subscribers: the parcel and ward subscribers
\* of the record are notified, the zip subscribers are not
C15_Witness ==
    \E k \in DOMAIN alerts :
        /\ alerts[k].event = "changed"
        /\ \E r \in Range(diff.changed) :
              /\ r.id = alerts[k].id
              /\ r.zip = Some("63104")
        /\ subscriptionId("u1", "zip", JsString(Chars("63104"))) \in DOMAIN subscriptions
        /\ \E m \in SentOf(alerts[k]) : m.type = "parcel"
        /\ \E m \in SentOf(alerts[k]) : m.type = "ward"

(***************************************************************************)
(* C16: for each record of the diff and each subscription type applicable  *)
(* to its event for which the record has a non-null value, the dispatcher  *)
(* notifies exactly the subscriptions whose (type, value) equals the       *)
(* record's, one notification per matching subscription, and notifies      *)
(* nobody for a dimension whose value is null.                             *)
(***************************************************************************)
\* the value of a record in the dimension of a subscription type
DimOf(p, type) ==
    CASE type = "zip" -> StringField(p.zip)
      [] type = "parcel" ->
            IF p.parcelId = NULL THEN NULL ELSE Some(JsString(DecimalString(p.parcelId[1])))
      [] type = "ward" -> NumberField(p.ward)
      [] type = "neighborhood" -> StringField(p.neighborhood)

MatchingSubs(type, v) ==
    { d \in DOMAIN subscriptions : subscriptions[d].type = type /\ subscriptions[d].value = v }

C16_DispatchPerMatch ==
    \A k \in DOMAIN alerts :
        LET p == alertPromises(diff)[k].property
        IN  \A t \in DOMAIN alerts[k].tasks :
                LET task == alerts[k].tasks[t]
                    value == DimOf(p, task.type)
                IN  /\ value = NULL => task.sent = <<>>
                    /\ (value # NULL /\ task.status = "fulfilled") =>
                          /\ { task.sent[n].subscription : n \in DOMAIN task.sent }
                                = MatchingSubs(task.type, value[1])
                          /\ \A n, m \in DOMAIN task.sent :
                                task.sent[n].subscription = task.sent[m].subscription => n = m
                          /\ \A n \in DOMAIN task.sent :
                                task.sent[n].userId
                                  = subscriptions[task.sent[n].subscription].userId

\* record 1 is added: both zip subscribers and the one ward-1 subscriber are
\* notified, the ward-2 subscriber is not, nobody is for the null neighborhood
C16_Witness ==
    \E k \in DOMAIN alerts :
        /\ alerts[k].event = "added" /\ alerts[k].id = 1
        /\ subscriptionId("u2", "ward", JsNumber(2)) \in DOMAIN subscriptions
        /\ \E t \in DOMAIN alerts[k].tasks :
              alerts[k].tasks[t].type = "zip" /\ Len(alerts[k].tasks[t].sent) = 2
        /\ \E t \in DOMAIN alerts[k].tasks :
              /\ alerts[k].tasks[t].type = "ward"
              /\ alerts[k].tasks[t].sent
                    = <<[userId |-> "u1", subscription |-> subscriptionId("u1", "ward", JsNumber(1))]>>
        /\ \E t \in DOMAIN alerts[k].tasks :
              alerts[k].tasks[t].type = "neighborhood" /\ alerts[k].tasks[t].status = "none"

(***************************************************************************)
(* C17: for one event on one record each user receives at most one         *)
(* notification, also when several of that user's subscriptions (one by    *)
(* zip and one by ward, say) match the record.                             *)
(***************************************************************************)
C17_OneMessagePerUser ==
    \A k \in DOMAIN alerts :
        \A a, b \in SentOf(alerts[k]) : a.userId = b.userId => a = b

(***************************************************************************)
(* C18: when a subscriber lookup fails for one (record, type) pair, every  *)
(* other notification of the run is still attempted, the dispatcher waits  *)
(* for all attempts to settle, no alert function rejects, and the ingest   *)
(* run is not aborted by it.                                               *)
(***************************************************************************)
C18_FailureIsolation ==
    /\ "alerts" \in Range(effects) => DOMAIN alerts = DOMAIN alertPromises(diff)
    /\ \A k \in DOMAIN alerts :
          /\ alerts[k].status = "fulfilled"
          /\ \A t \in DOMAIN alerts[k].tasks :
                LET task == alerts[k].tasks[t]
                    value == DimOf(alertPromises(diff)[k].property, task.type)
                IN  value # NULL =>
                      /\ task.status \in {"fulfilled", "rejected"}
                      /\ task.status = "fulfilled" =>
                            Len(task.sent) = Cardinality(MatchingSubs(task.type, value[1]))
    /\ (unreliable = "subscriptions" /\ pc = "idle" /\ runs > 0) =>
          /\ response.status = 200
          /\ effects[Len(effects)] = "export"

\* the zip lookup of an added record rejected, its ward subscriber was
\* notified all the same, and the run ended with a summary
C18_Witness ==
    /\ pc = "idle" /\ response.status = 200
    /\ \E k \in DOMAIN alerts :
          /\ \E t \in DOMAIN alerts[k].tasks :
                alerts[k].tasks[t].type = "zip" /\ alerts[k].tasks[t].status = "rejected"
          /\ \E t \in DOMAIN alerts[k].tasks :
                /\ alerts[k].tasks[t].type = "ward"
                /\ alerts[k].tasks[t].status = "fulfilled"
                /\ Len(alerts[k].tasks[t].sent) = 1

(***************************************************************************)
(* C19: when the global broadcast channel is configured, an ingest run     *)
(* fires it exactly once, whatever the number of added, changed and        *)
(* removed records.                                                        *)
(***************************************************************************)
\* the Slack messages of the run
SlackBroadcasts == Cardinality({ k \in DOMAIN alerts : alerts[k].slack })

C19_BroadcastOncePerRun ==
    (SLACK_WEBHOOK_URL /\ pc = "idle" /\ response.status = 200) => SlackBroadcasts = 1

(***************************************************************************)
(* C20: in every ingest run no alert is dispatched and no selections       *)
(* aggregation query is issued before the last write batch of the run has  *)
(* committed, and alert dispatch and selection aggregation then run as     *)
(* independent concurrent tasks: once the writer has returned, each of the *)
(* two can start without waiting for the other.                            *)
(***************************************************************************)
WriterDone == pc \in {"returned", "csv", "aggregate", "export", "idle"}

C20_CommitPrecedesFanOut ==
    /\ ~WriterDone => (alerts = <<>> /\ effects = <<>>)
    /\ (pc = "returned" /\ DiffIds(diff) # {}) =>
          /\ ENABLED runIngest_Alerts
          /\ ENABLED runIngest_Aggregate
    /\ (pc = "aggregate" /\ DiffIds(diff) # {}) =>
          ("alerts" \in Range(effects) \/ ENABLED runIngest_Alerts)

(***************************************************************************)
(* C21: after a successful ingest run, for every filterable field the list *)
(* of known values stored in exports/current equals the set of distinct    *)
(* stringified values the field takes over the listings with removed =     *)
(* false after this run's writes: no value of a removed record only, and   *)
(* no value of a non-removed record missing.                               *)
(***************************************************************************)
KnownKey(field) ==
    CASE field = "zip" -> "knownZips"
      [] field = "neighborhood" -> "knownNeighborhoods"
      [] field = "ward" -> "knownWards"
      [] field = "usage" -> "knownUsages"
      [] field = "Status" -> "knownStatuses"
      [] field = "PropertyType" -> "knownPropertyTypes"

\* the distinct stringified values of a field over the non-removed listings
LiveValues(field) ==
    { IF field \in NumericFields THEN ToString(listings[id][field][1]) ELSE listings[id][field][1] :
        id \in { d \in LiveIds(listings) : listings[d][field] # NULL } }

IngestSucceeded == pc = "idle" /\ response.status = 200

C21_SelectionsSnapshot ==
    IngestSucceeded =>
        \A k \in DOMAIN SelectionFields :
            exportsCurrent.data[KnownKey(SelectionFields[k])] = LiveValues(SelectionFields[k])

(***************************************************************************)
(* C22: if a selections query or the write of exports/current fails, the   *)
(* listings writes the run has committed stay committed and the failure    *)
(* does not turn the ingest run into a failed run.                         *)
(***************************************************************************)
C22_AggregationBestEffort ==
    fault \in {"aggregate", "export"} =>
        /\ \A id \in CommittedIds(commits) :
              /\ id \in DOMAIN listings
              /\ id \in DOMAIN pre => listings[id] # pre[id]
        /\ pc = "idle" => response.status = 200

\* C23: when fetchObjectIds returns, it holds every matching id exactly once, in
\* the server's order, whatever the server's limit and the page size are.
C23_PagingComplete ==
    fpc = "returned" => ids = objectIds

\* the k-th base delay: 300 ms doubled k - 1 times
RECURSIVE BaseDelay(_)
BaseDelay(k) == IF k = 1 THEN 300 ELSE 2 * BaseDelay(k - 1)

\* the response is an authentication failure: HTTP 401, or ArcGIS code 498 or 499
IsAuthFailure(res) ==
    \/ res.status = 401
    \/ res.status = 200 /\ res.isJson /\ res.error # NULL /\ res.error[1].code \in {498, 499}

\* C24: withRetry invokes the call at most retries + 1 times; before the k-th
\* further invocation it has waited 300 ms doubled k - 1 times plus a jitter
\* below 300 ms; it returns at the first success; it rethrows the last error,
\* and for an error it retries only after retries + 1 invocations.
C24_RetryCap ==
    wpc # "off" =>
        /\ Len(requests) <= retries + 1
        /\ Len(requests) = Len(waits) + (IF wpc = "call" THEN 0 ELSE 1)
        /\ \A k \in DOMAIN waits :
              waits[k].delay = BaseDelay(k) /\ waits[k].jitter \in 0..299
        /\ wpc = "returned" => doCall(lastResponse[1]).ok
        /\ wpc \in {"call", "sleep", "threw"} /\ lastResponse # NULL
              => ~doCall(lastResponse[1]).ok /\ error = Some(doCall(lastResponse[1]).message)
        /\ wpc = "threw" /\ ~nonRetryableAuth(error[1]) => Len(requests) = retries + 1

C24_Witness ==
    /\ wpc = "threw" /\ retries = 3 /\ Len(requests) = 4
    /\ waits[1].delay = 300 /\ waits[2].delay = 600 /\ waits[3].delay = 1200

\* C25: an authentication failure (HTTP 401, ArcGIS code 498 or 499) makes
\* withRetry rethrow at once, without a wait; and withRetry gives up before its
\* attempts are exhausted only for an authentication failure.
C25_AuthNotRetried ==
    wpc # "off" /\ lastResponse # NULL =>
        /\ IsAuthFailure(lastResponse[1]) => wpc = "threw"
        /\ wpc = "threw" /\ ~Exhausted(attempt, retries) => IsAuthFailure(lastResponse[1])

\* C27: in OAuth mode a call without forceRefresh requests a token exactly when
\* nothing is cached or the cached token expires within 60 seconds, and
\* otherwise returns the cached token and leaves the cache alone; a call with
\* forceRefresh always requests a token, and the response to a request replaces
\* the cache by the token it brought; in the modes none and static no token is
\* requested, the result does not come from the cache and the cache stays empty.
C27_TokenCache ==
    last # NULL =>
        LET e == last[1]
        IN  /\ e.kind = "call" /\ e.mode = "oauth" /\ oauthEnv =>
                  /\ e.force => e.requested
                  /\ ~e.force =>
                        (e.requested <=> (e.before = NULL \/ e.before[1].expiresAt - e.now <= 60000))
                  /\ ~e.requested =>
                        e.result = e.before[1].accessToken /\ e.after = e.before
            /\ e.kind = "response" /\ e.ok =>
                  e.after # NULL /\ e.after[1].accessToken = e.result /\ e.after # e.before
            /\ e.mode \in {"none", "static"} =>
                  /\ ~e.requested /\ issued = 0 /\ cachedToken = NULL
                  /\ e.result = (IF e.mode = "none" THEN NULL ELSE ARCGIS_TOKEN)

\* a call without forceRefresh finds a cached token that has not expired but
\* expires within the margin, and requests a new one
C27_Witness ==
    /\ last # NULL /\ last[1].kind = "call" /\ last[1].mode = "oauth" /\ ~last[1].force
    /\ last[1].before # NULL /\ last[1].before[1].expiresAt > last[1].now
    /\ last[1].requested

\* C28: at most one token request is in flight at any time.
C28_SingleFlight ==
    Cardinality({ c \in Callers : calls[c].pc = "fetch" }) <= 1

\* the requests arcgisPost sent after withRetry had given up
AfterRetry == SelectSeq(requests, LAMBDA r : r.by # "withRetry")

\* C26: when a request fails with an authentication error, arcgisPost with a
\* caller's token rejects without a refresh or a further request; without one,
\* in OAuth mode, it forces one token refresh and sends at most one further
\* request, which carries the refreshed token.
C26_RefreshAndSingleRetry ==
    apc \in {"returned", "threw"} /\ wpc = "threw" /\ isAuthErr(error[1]) =>
        /\ token # NULL => forced = 0 /\ AfterRetry = <<>> /\ apc = "threw" /\ thrown = error
        /\ token = NULL /\ mode = "oauth" =>
              /\ forced = 1
              /\ Len(AfterRetry) <= 1
              /\ \A k \in DOMAIN AfterRetry : AfterRetry[k].token = refreshed

\* the digit characters of a string, in order
DigitsOf(s) == SelectSeq(s, IsDigit)

\* C29: normZip returns null when its argument is null or holds no digit, and
\* otherwise five digits: the first five digits of the argument, or all of them
\* behind as many zeros as make five; "63104-1234" gives "63104" and "104"
\* gives "00104".
C29_NormZip ==
    npc = "normZip" =>
        /\ raw.type = "null" => ret = NULL
        /\ raw.type # "null" =>
              LET d == DigitsOf(String(raw))
                  k == Min(5, Len(d))
              IN  /\ d = <<>> => ret = NULL
                  /\ d # <<>> =>
                        /\ ret # NULL /\ Len(ret[1]) = 5
                        /\ \A p \in 1..(5 - k) : ret[1][p] = "0"
                        /\ \A p \in 1..k : ret[1][5 - k + p] = d[p]
        /\ raw = JsString(<<"6", "3", "1", "0", "4", "-", "1", "2", "3", "4">>)
              => ret = Some(<<"6", "3", "1", "0", "4">>)
        /\ raw = JsString(<<"1", "0", "4">>) => ret = Some(<<"0", "0", "1", "0", "4">>)

\* a string of fewer than five digits among dashes has been padded
C29_Witness ==
    /\ npc = "normZip" /\ raw = JsString(<<"-", "6", "-", "0">>)
    /\ ret = Some(<<"0", "0", "0", "6", "0">>)

\* the string, trimmed, is one or more digits
ParsesAsNumber(s) == trim(s) # <<>> /\ \A k \in DOMAIN trim(s) : IsDigit(trim(s)[k])

\* what a numeric field is to be for the value of its first alias, or for none
Degraded(a, field) ==
    LET v == pickAttr(a, FIELD_ALIASES[field])
    IN  IF \A k \in DOMAIN FIELD_ALIASES[field] : FIELD_ALIASES[field][k] \notin DOMAIN a
            THEN NULL
        ELSE IF v.type = "number" THEN Some(v.n)
        ELSE IF v.type = "string" /\ ParsesAsNumber(v.s) THEN Some(DecimalValue(trim(v.s)))
        ELSE NULL

\* C30: toRow always returns a row, and its ward and sqft are the number of a
\* finite number or of a numeric string, and null when no alias is present or
\* the value is unparsable, the empty string included.
C30_NumericDegrade ==
    npc = "toRow" =>
        /\ ret # NULL
        /\ ret[1].ward = Degraded(attrs, "ward")
        /\ ret[1].sqft = Degraded(attrs, "sqft")

\* the parcel identifier and the source object identifier of a raw record
ParcelOf(a) == pickAttr(a, FIELD_ALIASES.parcelId)
ObjectIdOf(a) == Coalesce(a, "OBJECTID", "ObjectId")

\* C31: toRow sets id to the stringified parcel identifier whenever the raw
\* record has a non-null one under any parcel alias, whatever its value;
\* otherwise to the stringified source object identifier when that is not
\* null; and otherwise to a freshly generated token.
C31_IdDerivation ==
    npc = "toRow" =>
        /\ ParcelOf(attrs).type # "null" => ret[1].id = String(ParcelOf(attrs))
        /\ (ParcelOf(attrs).type = "null" /\ ObjectIdOf(attrs).type # "null")
              => ret[1].id = String(ObjectIdOf(attrs))
        /\ (ParcelOf(attrs).type = "null" /\ ObjectIdOf(attrs).type = "null")
              => generated = 1 /\ ret[1].id = genUuid(1)

\* C32: ids are stable and unique: a raw record that two fetches return gets
\* the same id in both, and two records of one fetch with distinct object
\* identifiers never get the same id.
C32_IdsUniqueStable ==
    /\ \A r1, r2 \in DOMAIN fetched :
          \A p \in DOMAIN fetched[r1], q \in DOMAIN fetched[r2] :
              (r1 # r2 /\ features[p] = features[q])
                  => fetched[r1][p].id = fetched[r2][q].id
    /\ \A r \in DOMAIN fetched :
          \A p, q \in DOMAIN fetched[r] :
              LET a == ObjectIdOf(features[p])
                  b == ObjectIdOf(features[q])
              IN  (a.type # "null" /\ b.type # "null" /\ a # b)
                      => fetched[r][p].id # fetched[r][q].id

\* two values are equal; objects are equal when they have the same members
SameValue(v, w) ==
    /\ v.type = w.type
    /\ IF v.type = "object"
          THEN Len(v.s) = Len(w.s) /\ { v.s[k] : k \in DOMAIN v.s } = { w.s[k] : k \in DOMAIN w.s }
          ELSE v = w

\* the fields in whose value two rows differ
DifferIn(x, y) ==
    { k \in DOMAIN LraRowKeys :
        ~SameValue(Property(x, LraRowKeys[k]), Property(y, LraRowKeys[k])) }

\* the rows that have been fingerprinted, as <<fetch, position>>
Fingerprinted == { <<r, p>> : r \in DOMAIN hashes, p \in 1..MaxFeatures } \cap
                 { <<r, p>> \in (DOMAIN fetched) \X (1..MaxFeatures) : p \in DOMAIN fetched[r] }

\* C33: two normalized records with equal field values get the same
\* fingerprint, in whatever order their fields were produced, and two records
\* that differ in the value of a single field get different fingerprints (the
\* hash taken as collision-free).
C33_FingerprintDeterminism ==
    \A a, b \in Fingerprinted :
        LET x == fetched[a[1]][a[2]]
            y == fetched[b[1]][b[2]]
        IN  /\ DifferIn(x, y) = {} => hashes[a[1]][a[2]] = hashes[b[1]][b[2]]
            /\ Cardinality(DifferIn(x, y)) = 1 => hashes[a[1]][a[2]] # hashes[b[1]][b[2]]

\* the response to the request the loop is about to make
NextPage == queryIds(pageSize, offset)

\* C39: the paging loop of fetchObjectIds stops after finitely many requests:
\* every call returns or rejects, and it returns at the first response that
\* carries fewer ids than the page size and no exceededTransferLimit flag, and
\* at no other.
C39_PagingTerminates ==
    /\ <>(fpc \in {"returned", "threw"})
    /\ [][fpc = "request" =>
            /\ fpc' = "returned"
                  => Len(NextPage.objectIds) < pageSize /\ ~NextPage.exceededTransferLimit
            /\ fpc' = "request"
                  => Len(NextPage.objectIds) >= pageSize \/ NextPage.exceededTransferLimit]_vars

\* the loop has returned after a truncated page and at least two more requests
C39_Witness ==
    /\ fpc = "returned"
    /\ maxRecordCount < pageSize
    /\ offset >= 2 * pageSize
    /\ ids # <<>>

\* the documents this run flagged removed
FlaggedRemoved ==
    { id \in DOMAIN listings :
        /\ listings[id].removed = TRUE
        /\ id \in DOMAIN pre /\ pre[id].removed = FALSE }

\* C40: in every summary an ingest run returns, new + changed + unchanged is
\* the total, the total is the number of incoming rows, and the removed count
\* is the number of documents the run flagged removed.
C40_SummaryCounts ==
    (pc = "idle" /\ runs > 0 /\ response.status = 200) =>
        /\ response.body.new + response.body.changed + response.body.unchanged
              = response.body.total
        /\ response.body.total = Len(rows)
        /\ response.body.removed = Cardinality(FlaggedRemoved)

(***************************************************************************)
(* Helpers of the subscription properties                                  *)
(***************************************************************************)
\* the subscription a request names: the user of its token, the type and the
\* value of its body
TripleOf(e) == <<IdTokens[e.authorization[1].token], e.type[1], e.value>>
DocTriple(store, d) == <<store[d].userId, store[d].type, store[d].value>>
Created(e) == e.route = "/alerts" /\ e.method = "POST" /\ e.status = 201
Deleted(e) == e.route = "/alerts" /\ e.method = "DELETE" /\ e.status = 200
Listed(e) == e.route = "/alerts" /\ e.method = "GET" /\ e.status = 200

\* the subscriptions created and not removed afterwards by the first k requests
RECURSIVE Subscribed(_)
Subscribed(k) ==
    IF k = 0 THEN {}
    ELSE IF Created(log[k]) THEN Subscribed(k - 1) \cup {TripleOf(log[k])}
    ELSE IF Deleted(log[k]) THEN Subscribed(k - 1) \ {TripleOf(log[k])}
    ELSE Subscribed(k - 1)

\* how many times a list holds a value
Times(list, v) == Cardinality({ n \in DOMAIN list : list[n] = v })

(***************************************************************************)
(* C34: a createAlert call with a triple that createAlert was called with  *)
(* before leaves exactly one subscription of that triple in the store (and *)
(* adds no document when one was there), and getAlerts of the user lists   *)
(* the value once under the type.                                          *)
(***************************************************************************)
C34_CreateIdempotent ==
    [][(Len(log') = Len(log) + 1 /\ Created(log'[Len(log')])) =>
          LET t == TripleOf(log'[Len(log')])
          IN  (\E k \in DOMAIN log : Created(log[k]) /\ TripleOf(log[k]) = t) =>
                /\ Cardinality({ d \in DOMAIN subscriptions' :
                                    DocTriple(subscriptions', d) = t }) = 1
                /\ (\E d \in DOMAIN subscriptions : DocTriple(subscriptions, d) = t) =>
                        Cardinality(DOMAIN subscriptions') = Cardinality(DOMAIN subscriptions)
                /\ Times(getAlerts(subscriptions', t[1])[t[2]], t[3]) = 1]_vars

\* u1 subscribes to ward 5 twice and then reads its subscriptions: one
\* document, the value listed once
C34_Witness ==
    /\ Len(log) = 3
    /\ Created(log[1]) /\ Created(log[2]) /\ Listed(log[3])
    /\ TripleOf(log[1]) = <<"u1", "ward", JsNumber(5)>>
    /\ TripleOf(log[2]) = TripleOf(log[1])
    /\ log[3].authorization = log[1].authorization
    /\ log[3].alerts[1].ward = <<JsNumber(5)>>
    /\ Cardinality(DOMAIN subscriptions) = 1

(***************************************************************************)
(* C35: every subscription created and not removed afterwards has a        *)
(* document of its own in the store, with its userId, type and value:      *)
(* creating or removing a subscription of another triple neither           *)
(* overwrites nor deletes it.                                              *)
(***************************************************************************)
C35_TripleIdentity ==
    \A t \in Subscribed(Len(log)) :
        \E d \in DOMAIN subscriptions : DocTriple(subscriptions, d) = t

(***************************************************************************)
(* C37: every answer of getAlerts(u) lists, under each of the four types,  *)
(* exactly the values of the triples of u created and not removed before   *)
(* it, each once; a removeAlert of a triple that was not subscribed        *)
(* answers 200 and leaves the store unchanged.                             *)
(***************************************************************************)
C37_RoundTrip ==
    [][Len(log') = Len(log) + 1 =>
          LET e == log'[Len(log')]
          IN  /\ Listed(e) =>
                    LET u == IdTokens[e.authorization[1].token]
                    IN  \A n \in DOMAIN VALID_SUBSCRIPTION_TYPES :
                            LET type == VALID_SUBSCRIPTION_TYPES[n]
                                list == e.alerts[1][type]
                                mine == { t \in Subscribed(Len(log)) : t[1] = u /\ t[2] = type }
                            IN  /\ Range(list) = { t[3] : t \in mine }
                                /\ Len(list) = Cardinality(mine)
              /\ (Deleted(e) /\ TripleOf(e) \notin Subscribed(Len(log)))
                    => subscriptions' = subscriptions]_vars

(***************************************************************************)
(* C36: a step changes the subscriptions collection only when it is a      *)
(* POST or DELETE /alerts request with a Bearer token that verifyIdToken   *)
(* accepts, answered 201 or 200, and then it changes at most the document  *)
(* of the triple the request names; no step of an ingest run, of an alert  *)
(* dispatch or of another route changes the collection.                    *)
(***************************************************************************)
C36_IngestKeepsSubscriptions ==
    [][subscriptions' # subscriptions =>
          /\ Len(log') = Len(log) + 1
          /\ LET e == log'[Len(log')]
             IN  /\ Created(e) \/ Deleted(e)
                 /\ e.authorization # NULL
                 /\ e.authorization[1].scheme = "Bearer"
                 /\ e.authorization[1].token \in DOMAIN IdTokens
                 /\ \A d \in DOMAIN subscriptions \cup DOMAIN subscriptions' :
                        \/ d \in DOMAIN subscriptions /\ d \in DOMAIN subscriptions'
                             /\ subscriptions'[d] = subscriptions[d]
                        \/ /\ d \in DOMAIN subscriptions' => DocTriple(subscriptions', d) = TripleOf(e)
                           /\ d \in DOMAIN subscriptions' <=> Created(e)]_vars

\* an ingest run has notified subscribers and was answered 200, and the
\* subscription u1 created through POST /alerts is in the store next to the
\* five of the deployment
C36_Witness ==
    /\ \E k \in DOMAIN log : log[k].route = "/ingest" /\ log[k].status = 200
    /\ \E k \in DOMAIN alerts : SentOf(alerts[k]) # {}
    /\ \E k \in DOMAIN log : Created(log[k])
    /\ subscriptionId("u1", "ward", JsNumber(0)) \in DOMAIN subscriptions
    /\ Cardinality(DOMAIN subscriptions) = Cardinality(DOMAIN AllSubs) + 1

(***************************************************************************)
(* C38: a POST to /ingest or /wipe that arrives while INGEST_SECRET is not *)
(* set, or without the x-ingest-key header, or with a header that differs  *)
(* from the secret, is answered 401, and the step starts no ingest run,    *)
(* takes no snapshot of the store and changes nothing but the log.         *)
(***************************************************************************)
C38_AdminGuard ==
    [][(Len(log') = Len(log) + 1 /\ log'[Len(log')].route \in {"/ingest", "/wipe"}) =>
          LET e == log'[Len(log')]
          IN  (INGEST_SECRET = NULL \/ e.key = NULL \/ e.key # INGEST_SECRET) =>
                /\ e.status = 401
                /\ Pending("/ingest") = {} => ~Starting'
                /\ UNCHANGED <<listings, clock, subscriptions, deployment, pipeline,
                               INGEST_SECRET, wipe, clients>>]_vars

\* the secret is set: a request with a wrong key and a request without the
\* header were answered 401 after an ingest run had filled the store, and the
\* store is as the run left it
C38_Witness ==
    /\ INGEST_SECRET = Some("k1")
    /\ Len(log) = 3
    /\ log[1].route = "/ingest" /\ log[1].status = 200
    /\ log[2].route = "/wipe" /\ log[2].key = Some("k2") /\ log[2].status = 401
    /\ log[3].route = "/ingest" /\ log[3].key = NULL /\ log[3].status = 401
    /\ DOMAIN listings = {1, 2}
    /\ runs = 1 /\ pc = "idle" /\ wipe = NULL

====
